---------------------------- MODULE Spec2Model ----------------------------
(***************************************************************************)
(* Per-worker simulation state of the Pentobi MCTS engine                  *)
(* (libpentobi_mcts/State.cpp) over a small Blokus board.                  *)
(*                                                                         *)
(* The board (libpentobi_base::Board), its move tables, LocalValue and the *)
(* search tree are not part of the translated sources; they are modelled   *)
(* from the specification (sections 3, 4.1 and 6) on a Width x Width grid  *)
(* with three pieces per color (a monomino, a domino and an I3 tromino).   *)
(***************************************************************************)
EXTENDS Integers, Sequences, FiniteSets, TLC

(***************************************************************************)
(* Bounds of the model.                                                    *)
(***************************************************************************)
\* Simulations run per search.
MaxSimulations == 2
\* The uniform draw u of generate_double() ranges over k/RandDenom, k < RandDenom.
RandDenom == 4
\* The position of the random generator is kept modulo RandPeriod.
RandPeriod == 2
\* Iterations of the loop of one gen_playout_move call that are followed.
MaxExamined == 4
\* Last-good-reply table entries are usable while the search has played
\* fewer than MaxLgrMoves replies.
MaxLgrMoves == 1

(***************************************************************************)
(* Geometry and move tables (board constants).                             *)
(***************************************************************************)
Width == 3
Points == 0 .. (Width * Width - 1)
PX(p) == p % Width
PY(p) == p \div Width

Adj(p) == {q \in Points : \/ PY(q) = PY(p) /\ (PX(q) = PX(p) + 1 \/ PX(q) = PX(p) - 1)
                          \/ PX(q) = PX(p) /\ (PY(q) = PY(p) + 1 \/ PY(q) = PY(p) - 1)}
Diag(p) == {q \in Points : /\ (PX(q) = PX(p) + 1 \/ PX(q) = PX(p) - 1)
                           /\ (PY(q) = PY(p) + 1 \/ PY(q) = PY(p) - 1)}

\* A set of integers as the ascending sequence of its elements.
RECURSIVE SetToSeq(_)
SetToSeq(S) == IF S = {} THEN <<>>
               ELSE LET m == CHOOSE x \in S : \A y \in S : x <= y
                    IN <<m>> \o SetToSeq(S \ {m})

Range(s) == {s[i] : i \in 1 .. Len(s)}

\* MoveInfo of every regular move: the ordered placement points.
MoveInfoArray ==
    LET mono == [i \in 1 .. Width * Width |-> <<i - 1>>]
        hor  == SetToSeq({p \in Points : PX(p) < Width - 1})
        ver  == SetToSeq({p \in Points : PY(p) < Width - 1})
        hor3 == SetToSeq({p \in Points : PX(p) < Width - 2})
        ver3 == SetToSeq({p \in Points : PY(p) < Width - 2})
    IN mono \o [i \in 1 .. Len(hor) |-> <<hor[i], hor[i] + 1>>]
            \o [i \in 1 .. Len(ver) |-> <<ver[i], ver[i] + Width>>]
            \o [i \in 1 .. Len(hor3) |-> <<hor3[i], hor3[i] + 1, hor3[i] + 2>>]
            \o [i \in 1 .. Len(ver3) |-> <<ver3[i], ver3[i] + Width, ver3[i] + 2 * Width>>]

NuMoves == Len(MoveInfoArray)
RegularMoves == 1 .. NuMoves
MoveNull == 0
MovePass == NuMoves + 1
IsRegular(mv) == mv \in RegularMoves

get_move_info(mv) == MoveInfoArray[mv]
MovePointSet(mv) == Range(get_move_info(mv))

\* Pieces are named by their size.
Pieces == {1, 2, 3}
AllPieces == <<3, 2, 1>>
PieceSize(piece) == piece
PieceOf(mv) == Len(get_move_info(mv))
\* Number of attach points (outer corners) of a piece on the square grid.
PieceNuAttach(piece) == 4
MaxPieceSize == 3

\* MoveInfoExt: the attach points of a move (diagonal to the piece, not
\* part of it and not edge-adjacent to it), in ascending order.
MoveAttachPoints(mv) ==
    LET ps == MovePointSet(mv)
    IN SetToSeq({q \in Points : /\ q \notin ps
                                /\ \E p \in ps : q \in Diag(p)
                                /\ \A p \in ps : q \notin Adj(p)})

(***************************************************************************)
(* Board (external collaborator, section 6 of the specification).          *)
(* A board is a record                                                     *)
(*   variant : the game variant                                            *)
(*   ps      : point -> Empty or the color occupying it                    *)
(*   pl      : color -> list of pieces left                                *)
(*   ap      : color -> list of attach points, in order of creation        *)
(*   tp      : color to play                                               *)
(*   hist    : the moves played, as <<color, move>>                        *)
(***************************************************************************)
Variants == {"duo", "classic_2", "classic"}
Empty == -1

NuColorsOf(v) == IF v = "duo" THEN 2 ELSE 4
NuPlayersOf(v) == IF v = "classic" THEN 4 ELSE 2
BoardTypeOf(v) == IF v = "duo" THEN "duo" ELSE "classic"

get_nu_colors(b) == NuColorsOf(b.variant)
get_nu_players(b) == NuPlayersOf(b.variant)
Colors(b) == 0 .. (get_nu_colors(b) - 1)
MaxColors == 0 .. 3

get_next(b, c) == (c + 1) % get_nu_colors(b)
get_second_color(b, c) == IF b.variant = "classic_2" THEN (c + 2) % 4 ELSE c

\* One starting point per color: opposite corners in duo, the four corners
\* (clockwise) in the classic variants.
get_starting_points(b, c) ==
    IF b.variant = "duo"
    THEN (IF c = 0 THEN <<0>> ELSE <<Width * Width - 1>>)
    ELSE << <<0, Width - 1, Width * Width - 1, Width * (Width - 1)>>[c + 1] >>

EmptyBoard(v, c) ==
    [variant |-> v,
     ps      |-> [p \in Points |-> Empty],
     pl      |-> [k \in MaxColors |-> IF k < NuColorsOf(v) THEN AllPieces ELSE <<>>],
     ap      |-> [k \in MaxColors |-> <<>>],
     tp      |-> c,
     hist    |-> <<>>]

\* A point is forbidden for c if it is occupied or edge-adjacent to a
\* piece of c.
is_forbidden(b, p, c) == b.ps[p] # Empty \/ \E q \in Adj(p) : b.ps[q] = c

is_piece_left(b, c, piece) == piece \in Range(b.pl[c])
is_first_piece(b, c) == Len(b.pl[c]) = Len(AllPieces)
get_nu_moves(b) == Len(b.hist)
get_nu_onboard_pieces(b) ==
    Cardinality({i \in 1 .. Len(b.hist) : b.hist[i][2] # MovePass})

\* The forbidden neighbours of p: the information get_moves uses to skip
\* moves known to be illegal.
get_adj_status(b, p, c) == {q \in Adj(p) \cup Diag(p) : is_forbidden(b, q, c)}

\* The moves of a piece that cover point p, without the ones that cover a
\* point listed in adj_status.
get_moves(piece, p, adj_status) ==
    SelectSeq([i \in RegularMoves |-> i],
              LAMBDA mv : /\ PieceOf(mv) = piece
                          /\ p \in MovePointSet(mv)
                          /\ MovePointSet(mv) \cap adj_status = {})

is_legal_nonpass(b, mv) ==
    LET c == b.tp
        ps == MovePointSet(mv)
    IN /\ IsRegular(mv)
       /\ is_piece_left(b, c, PieceOf(mv))
       /\ \A p \in ps : ~is_forbidden(b, p, c)
       /\ \/ \E p \in ps : p \in Range(b.ap[c])
          \/ /\ is_first_piece(b, c)
             /\ \E p \in ps : p \in Range(get_starting_points(b, c))

RECURSIVE AppendNew(_, _, _, _)
\* Append to list l the points of ps (in order) that are not forbidden for
\* c on board b and not yet in l.
AppendNew(b, c, l, ps) ==
    IF ps = <<>> THEN l
    ELSE LET p == Head(ps)
         IN AppendNew(b, c,
                      IF ~is_forbidden(b, p, c) /\ p \notin Range(l)
                      THEN Append(l, p) ELSE l,
                      Tail(ps))

play_nonpass(b, mv) ==
    LET c  == b.tp
        b1 == [b EXCEPT !.ps = [p \in Points |->
                                  IF p \in MovePointSet(mv) THEN c ELSE b.ps[p]],
                        !.pl[c] = SelectSeq(b.pl[c], LAMBDA x : x # PieceOf(mv)),
                        !.tp = get_next(b, c),
                        !.hist = Append(b.hist, <<c, mv>>)]
    IN [b1 EXCEPT !.ap[c] = AppendNew(b1, c, b.ap[c], MoveAttachPoints(mv))]

play_pass(b) ==
    [b EXCEPT !.tp = get_next(b, b.tp), !.hist = Append(b.hist, <<b.tp, MovePass>>)]

set_to_play(b, c) == [b EXCEPT !.tp = c]

RECURSIVE SumSeq(_)
SumSeq(s) == IF s = <<>> THEN 0 ELSE Head(s) + SumSeq(Tail(s))

\* Points of a color: the squares placed, plus 15 for placing all pieces
\* and 5 more if the last piece placed was the monomino.
get_points_with_bonus(b, c) ==
    LET placed == SumSeq(AllPieces) - SumSeq(b.pl[c])
        own    == SelectSeq(b.hist, LAMBDA e : e[1] = c /\ e[2] # MovePass)
    IN IF b.pl[c] # <<>> THEN placed
       ELSE placed + 15 + (IF PieceOf(own[Len(own)][2]) = 1 THEN 5 ELSE 0)

Max(S) == CHOOSE x \in S : \A y \in S : y <= x

get_score(b, c) ==
    LET pts(k) == get_points_with_bonus(b, k)
    IN CASE b.variant = "duo" -> pts(c) - pts(1 - c)
         [] b.variant = "classic_2" ->
                pts(c) + pts((c + 2) % 4) - pts((c + 1) % 4) - pts((c + 3) % 4)
         [] OTHER -> pts(c) - Max({pts(k) : k \in Colors(b) \ {c}})

\* The point reflection pairing each point with its mirror.
symmetric_points(p) == Width * Width - 1 - p

(***************************************************************************)
(* Gamma values.  The code uses doubles; the factors 1e10 per local attach *)
(* point and 1e5 exceed the integers of the model checker, so a gamma      *)
(* value is kept exactly as the digits of a numeral in base GammaRadix:    *)
(* g[e] is the coefficient of GammaRadix^e.  The attach factor 1.8 = 9/5   *)
(* is kept exact by counting in units of 1 / 5^(MaxNuAttach - 1).          *)
(***************************************************************************)
GammaRadix == 100000
MaxNuAttach == 4
GammaExps == 0 .. (2 * MaxPieceSize + 1)
GZero == [e \in GammaExps |-> 0]
GUnit(coef, e) == [GZero EXCEPT ![e] = coef]
GAdd(a, b) == [e \in GammaExps |-> a[e] + b[e]]
GScale(a, k) == [e \in GammaExps |-> a[e] * k]

RECURSIVE GCarry(_, _, _)
\* Normal form: every digit but the highest below GammaRadix.
GCarry(a, e, carry) ==
    LET v == a[e] + carry
    IN IF e = 2 * MaxPieceSize + 1 THEN [a EXCEPT ![e] = v]
       ELSE GCarry([a EXCEPT ![e] = v % GammaRadix], e + 1, v \div GammaRadix)
GNorm(a) == GCarry(a, 0, 0)

RECURSIVE GLessFrom(_, _, _)
GLessFrom(a, b, e) ==
    IF a[e] # b[e] THEN a[e] < b[e]
    ELSE IF e = 0 THEN FALSE ELSE GLessFrom(a, b, e - 1)
\* a < b as numbers.
GLess(a, b) == GLessFrom(GNorm(a), GNorm(b), 2 * MaxPieceSize + 1)
GLeq(a, b) == ~GLess(b, a)

RECURSIVE Pow(_, _)
Pow(x, n) == IF n = 0 THEN 1 ELSE x * Pow(x, n - 1)

\* m_gamma_piece as start_search computes it for a board type.
GammaPieceTable(board_type) ==
    LET gamma_size_factor == IF board_type = "duo" THEN 3 ELSE 5
        \* gamma_nu_attach_factor in fifths: 1 = 5/5, 1.8 = 9/5
        gamma_nu_attach_factor5 == IF board_type = "duo" THEN 9 ELSE 5
    IN [piece \in Pieces |->
          Pow(gamma_size_factor, PieceSize(piece) - 1)
          * Pow(gamma_nu_attach_factor5, PieceNuAttach(piece) - 1)
          * Pow(5, MaxNuAttach - PieceNuAttach(piece))]

\* m_gamma_nu_attach[i] = pow(1e10, i) = GammaRadix^(2 i): a shift by 2 i digits.
GammaNuAttachShift(i) == 2 * i
\* The factor 1e5 = GammaRadix: a shift by one digit.
GammaAdjAttachShift == 1

(***************************************************************************)
(* LocalValue (external): the attach points of the last moves of the       *)
(* opponents, and the points next to them.                                 *)
(***************************************************************************)
LocalValueInit(b) ==
    LET n      == Len(b.hist)
        recent == {i \in 1 .. n : /\ i > n - 3
                                  /\ b.hist[i][1] # b.tp
                                  /\ b.hist[i][1] # get_second_color(b, b.tp)
                                  /\ b.hist[i][2] # MovePass}
        att    == UNION {{q \in Range(MoveAttachPoints(b.hist[i][2])) :
                             ~is_forbidden(b, q, b.hist[i][1])} : i \in recent}
        adj    == UNION {{q \in Adj(p) : \E i \in recent :
                             ~is_forbidden(b, q, b.hist[i][1])} : p \in att} \ att
    IN [attach |-> att, adj_attach |-> adj]

LocalNuAttach(local, mv) == Cardinality(MovePointSet(mv) \cap local.attach)
LocalHasAdjAttach(local, mv) == MovePointSet(mv) \cap local.adj_attach # {}
LocalHasLocal(local, mv) ==
    LocalNuAttach(local, mv) > 0 \/ LocalHasAdjAttach(local, mv)

(***************************************************************************)
(* SharedConst: the piece-consideration tables keyed by move number.       *)
(* A table is named by its identity ("large": only the tromino, "medium": *)
(* tromino and domino, "all").                                             *)
(***************************************************************************)
min_move_all_considered == 1
is_piece_considered_all == "all"
\* The table for a move number below min_move_all_considered.
is_piece_considered(nu_moves) == IF nu_moves < 2 THEN "large" ELSE "medium"
PieceConsidered(table, piece) ==
    \/ table = "all"
    \/ table = "medium" /\ PieceSize(piece) >= 2
    \/ piece = MaxPieceSize

(***************************************************************************)
(* State: the members of libpentobi_mcts::State as a record S, and its     *)
(* methods as operators from a record to the record after the call.  The   *)
(* field played is not a member: it lists, for the current simulation, the *)
(* calls of play_playout and the passes of play_expanded_child, each with  *)
(* the color that was to play.                                             *)
(***************************************************************************)
\* add_move storing the gamma of the move instead of the running total.
add_move_StoresGamma(S, c, mv, gamma) ==
    LET size == Len(S.moves[c])
    IN [S EXCEPT !.total_gamma = GAdd(@, gamma),
                 !.cumulative_gamma = IF size < Len(@) THEN [@ EXCEPT ![size + 1] = gamma]
                                      ELSE Append(@, gamma),
                 !.moves[c] = Append(S.moves[c], mv)]

\* State::add_move
add_move(S, c, mv, gamma) ==
    LET total == GAdd(S.total_gamma, gamma)
        size  == Len(S.moves[c])
    IN [S EXCEPT !.total_gamma = total,
                 !.cumulative_gamma = IF size < Len(@) THEN [@ EXCEPT ![size + 1] = total]
                                      ELSE Append(@, total),
                 !.moves[c] = Append(S.moves[c], mv)]

\* check_move without the tests of is_forbidden.
check_move_IgnoresForbidden(S, c, mv, local) ==
    LET shift == IF LocalHasLocal(local, mv)
                 THEN GammaNuAttachShift(LocalNuAttach(local, mv))
                      + (IF LocalHasAdjAttach(local, mv) THEN GammaAdjAttachShift ELSE 0)
                 ELSE 0
    IN [ok    |-> TRUE,
        gamma |-> GUnit(S.gamma_piece[PieceOf(mv)], shift)]

\* State::check_move: whether no point of the move is forbidden, and the
\* gamma of the move.
check_move(S, c, mv, local) ==
    LET shift == IF LocalHasLocal(local, mv)
                 THEN GammaNuAttachShift(LocalNuAttach(local, mv))
                      + (IF LocalHasAdjAttach(local, mv) THEN GammaAdjAttachShift ELSE 0)
                 ELSE 0
    IN [ok    |-> \A p \in MovePointSet(mv) : ~is_forbidden(S.bd, p, c),
        gamma |-> GUnit(S.gamma_piece[PieceOf(mv)], shift)]

\* State::check_move_without_gamma
check_move_without_gamma(S, c, mv) ==
    \A p \in MovePointSet(mv) : ~is_forbidden(S.bd, p, c)

RECURSIVE ConcatMoves(_, _, _)
\* The moves get_moves yields for each piece of a list, in order.
ConcatMoves(pieces, p, adj_status) ==
    IF pieces = <<>> THEN <<>>
    ELSE get_moves(Head(pieces), p, adj_status) \o ConcatMoves(Tail(pieces), p, adj_status)

\* The body of the loops of both add_moves: add an unmarked candidate that
\* passes check_move, with its gamma.
AddIfChecked(S, c, mv, r) ==
    IF mv \notin S.marker[c] /\ r.ok
    THEN add_move([S EXCEPT !.marker[c] = @ \cup {mv}], c, mv, r.gamma)
    ELSE S

RECURSIVE AddChecked(_, _, _, _)
AddChecked(S, c, cands, local) ==
    IF cands = <<>> THEN S
    ELSE AddChecked(AddIfChecked(S, c, Head(cands), check_move(S, c, Head(cands), local)),
                    c, Tail(cands), local)

\* State::add_moves(Point, Color, const PiecesLeftList&)
add_moves(S, p, c, pieces_considered) ==
    [AddChecked(S, c, ConcatMoves(pieces_considered, p, get_adj_status(S.bd, p, c)),
                LocalValueInit(S.bd))
        EXCEPT !.moves_added_at[c] = @ \cup {p}]

\* State::add_moves(Point, Color, Piece, unsigned adj_status)
add_moves_piece(S, p, c, piece, adj_status) ==
    AddChecked(S, c, get_moves(piece, p, adj_status), LocalValueInit(S.bd))

\* Distance of two points in hundredths, rounded down (the code uses float
\* sqrt; with one starting point per color the order of two sums never
\* decides the result).
Dist100(p, q) ==
    LET n == 10000 * ((PX(p) - PX(q)) * (PX(p) - PX(q)) + (PY(p) - PY(q)) * (PY(p) - PY(q)))
    IN CHOOSE r \in 0 .. 100 * 2 * Width : r * r <= n /\ n < (r + 1) * (r + 1)

PointNull == -2

\* State::find_best_starting_point
find_best_starting_point(S, c) ==
    LET b == S.bd
        occupied == UNION {{pp \in Range(get_starting_points(b, k)) :
                              b.ps[pp] # Empty} : k \in Colors(b)}
        weight(pp) == IF b.ps[pp] = c \/ b.ps[pp] = get_second_color(b, c) THEN 2 ELSE 1
        d(p) == SumSeq([i \in 1 .. Cardinality(occupied) |->
                          LET pp == SetToSeq(occupied)[i] IN weight(pp) * Dist100(p, pp)])
        cand == SelectSeq(get_starting_points(b, c), LAMBDA p : ~is_forbidden(b, p, c))
        better(i) == \A j \in 1 .. Len(cand) :
                        d(cand[j]) < d(cand[i]) \/ (d(cand[j]) = d(cand[i]) /\ i <= j)
    IN IF cand = <<>> THEN PointNull
       ELSE cand[CHOOSE i \in 1 .. Len(cand) : better(i)]

\* The body of the loop of add_starting_moves.
AddStartingMove(S, c, mv, with_gamma) ==
    IF ~check_move_without_gamma(S, c, mv) THEN S
    ELSE IF with_gamma
    THEN add_move([S EXCEPT !.marker[c] = @ \cup {mv}], c, mv,
                  GUnit(S.gamma_piece[PieceOf(mv)], 0))
    ELSE [S EXCEPT !.marker[c] = @ \cup {mv}, !.moves[c] = Append(@, mv)]

RECURSIVE AddStarting(_, _, _, _)
AddStarting(S, c, cands, with_gamma) ==
    IF cands = <<>> THEN S
    ELSE AddStarting(AddStartingMove(S, c, Head(cands), with_gamma),
                     c, Tail(cands), with_gamma)

AddStartingAt(S, c, p, pieces_considered, with_gamma) ==
    IF p = PointNull THEN S
    ELSE AddStarting(S, c, ConcatMoves(pieces_considered, p, {}), with_gamma)

\* State::add_starting_moves
add_starting_moves(S, c, pieces_considered, with_gamma) ==
    AddStartingAt(S, c, find_best_starting_point(S, c), pieces_considered, with_gamma)

\* State::get_pieces_considered
\* get_pieces_considered without the test of m_force_consider_all_pieces.
get_pieces_considered_Unforced(S) ==
    LET nu_moves == get_nu_onboard_pieces(S.bd)
    IN IF nu_moves >= S.min_move_all_considered
       THEN is_piece_considered_all
       ELSE is_piece_considered(nu_moves)

get_pieces_considered(S) ==
    LET nu_moves == get_nu_onboard_pieces(S.bd)
    IN IF nu_moves >= S.min_move_all_considered \/ S.force_consider_all_pieces
       THEN is_piece_considered_all
       ELSE is_piece_considered(nu_moves)

RECURSIVE AddAtPoints(_, _, _, _)
\* add_moves at every point of a list that is not forbidden.
AddAtPoints(S, c, points, pieces_considered) ==
    IF points = <<>> THEN S
    ELSE AddAtPoints(IF ~is_forbidden(S.bd, Head(points), c)
                     THEN add_moves(S, Head(points), c, pieces_considered)
                     ELSE S,
                     c, Tail(points), pieces_considered)

\* The piece list both init_moves and update_moves build: the pieces left
\* that the color's consideration table lists.
PiecesConsidered(S, c) ==
    SelectSeq(S.bd.pl[c], LAMBDA piece : PieceConsidered(S.is_piece_considered[c], piece))

\* init_moves_*: set the consideration table, clear marker and list.
InitClear(S, c, with_gamma) ==
    [S EXCEPT !.is_piece_considered[c] = get_pieces_considered(S),
              !.total_gamma = IF with_gamma THEN GZero ELSE @,
              !.marker[c] = @ \ Range(S.moves[c]),
              !.moves[c] = <<>>]

\* init_moves_*: the list is initialized, the color's new moves are dropped.
InitDone(S, c) ==
    [S EXCEPT !.is_move_list_initialized[c] = TRUE, !.new_moves[c] = <<>>]

InitGenerateWithGamma(S, c) ==
    IF is_first_piece(S.bd, c)
    THEN add_starting_moves(S, c, PiecesConsidered(S, c), TRUE)
    ELSE AddAtPoints(S, c, S.bd.ap[c], PiecesConsidered(S, c))

RECURSIVE init_moves_with_gamma(_, _)
InitRetryWithGamma(S, c) ==
    IF S.moves[c] = <<>> /\ ~S.force_consider_all_pieces
    THEN init_moves_with_gamma([S EXCEPT !.force_consider_all_pieces = TRUE], c)
    ELSE S

\* State::init_moves_with_gamma
init_moves_with_gamma(S, c) ==
    InitRetryWithGamma(InitDone(InitGenerateWithGamma(InitClear(S, c, TRUE), c), c), c)

RECURSIVE AddUnchecked(_, _, _)
\* Inner loop of init_moves_without_gamma.
AddUnchecked(S, c, cands) ==
    IF cands = <<>> THEN S
    ELSE LET mv == Head(cands)
         IN AddUnchecked(IF mv \notin S.marker[c] /\ check_move_without_gamma(S, c, mv)
                         THEN [S EXCEPT !.marker[c] = @ \cup {mv},
                                        !.moves[c] = Append(@, mv)]
                         ELSE S,
                         c, Tail(cands))

\* One attach point of init_moves_without_gamma.
AddAtPointWithoutGamma(S, c, p, pieces_considered) ==
    [AddUnchecked(S, c, ConcatMoves(pieces_considered, p, get_adj_status(S.bd, p, c)))
        EXCEPT !.moves_added_at[c] = @ \cup {p}]

RECURSIVE AddAtPointsWithoutGamma(_, _, _, _)
AddAtPointsWithoutGamma(S, c, points, pieces_considered) ==
    IF points = <<>> THEN S
    ELSE AddAtPointsWithoutGamma(
             IF ~is_forbidden(S.bd, Head(points), c)
             THEN AddAtPointWithoutGamma(S, c, Head(points), pieces_considered)
             ELSE S,
             c, Tail(points), pieces_considered)

InitGenerateWithoutGamma(S, c) ==
    IF is_first_piece(S.bd, c)
    THEN add_starting_moves(S, c, PiecesConsidered(S, c), FALSE)
    ELSE AddAtPointsWithoutGamma(S, c, S.bd.ap[c], PiecesConsidered(S, c))

RECURSIVE init_moves_without_gamma(_, _)
InitRetryWithoutGamma(S, c) ==
    IF S.moves[c] = <<>> /\ ~S.force_consider_all_pieces
    THEN init_moves_without_gamma([S EXCEPT !.force_consider_all_pieces = TRUE], c)
    ELSE S

\* State::init_moves_without_gamma
init_moves_without_gamma(S, c) ==
    InitRetryWithoutGamma(
        InitDone(InitGenerateWithoutGamma(InitClear(S, c, FALSE), c), c), c)

\* The first loop of update_moves keeping every old move.
KeepIfLegal_KeepsAll(S, c, mv, r) == add_move(S, c, mv, r.gamma)

\* The first loop of update_moves forgetting to clear the marker of a
\* dropped move.
KeepIfLegal_MarkerStays(S, c, mv, r) ==
    IF is_piece_left(S.bd, c, PieceOf(mv)) /\ r.ok
    THEN add_move(S, c, mv, r.gamma)
    ELSE S

\* The first loop of update_moves without the test of is_piece_left.
KeepIfLegal_IgnoresPiece(S, c, mv, r) ==
    IF r.ok
    THEN add_move(S, c, mv, r.gamma)
    ELSE [S EXCEPT !.marker[c] = @ \ {mv}]

\* One old move of the first loop of update_moves.
KeepIfLegal(S, c, mv, r) ==
    IF is_piece_left(S.bd, c, PieceOf(mv)) /\ r.ok
    THEN add_move(S, c, mv, r.gamma)
    ELSE [S EXCEPT !.marker[c] = @ \ {mv}]

RECURSIVE KeepLegal(_, _, _, _)
\* First loop of update_moves: re-add the old moves that are still legal,
\* clear the marker of the others.
KeepLegal(S, c, old, local) ==
    IF old = <<>> THEN S
    ELSE KeepLegal(KeepIfLegal(S, c, Head(old), check_move(S, c, Head(old), local)),
                   c, Tail(old), local)

RECURSIVE AddAtNewAttach(_, _, _, _)
\* Second loop of update_moves: the attach points of the moves the color
\* played since the last update.
AddAtNewAttach(S, c, points, pieces_considered) ==
    IF points = <<>> THEN S
    ELSE LET p == Head(points)
         IN AddAtNewAttach(IF ~is_forbidden(S.bd, p, c) /\ p \notin S.moves_added_at[c]
                           THEN add_moves(S, p, c, pieces_considered)
                           ELSE S,
                           c, Tail(points), pieces_considered)

RECURSIVE ConcatAttach(_)
ConcatAttach(mvs) ==
    IF mvs = <<>> THEN <<>> ELSE MoveAttachPoints(Head(mvs)) \o ConcatAttach(Tail(mvs))

RECURSIVE AddPiecesAtPoint(_, _, _, _, _)
AddPiecesAtPoint(S, c, p, pieces, adj_status) ==
    IF pieces = <<>> THEN S
    ELSE AddPiecesAtPoint(add_moves_piece(S, p, c, Head(pieces), adj_status),
                          c, p, Tail(pieces), adj_status)

RECURSIVE AddPiecesAtPoints(_, _, _, _)
\* Third loop of update_moves: the newly considered pieces at every attach
\* point that is not forbidden.
AddPiecesAtPoints(S, c, points, pieces) ==
    IF points = <<>> THEN S
    ELSE AddPiecesAtPoints(
             IF ~is_forbidden(S.bd, Head(points), c)
             THEN AddPiecesAtPoint(S, c, Head(points), pieces,
                                   get_adj_status(S.bd, Head(points), c))
             ELSE S,
             c, Tail(points), pieces)

\* update_moves, "Find old moves that are still legal".
UpdateOld(S, c) ==
    KeepLegal([S EXCEPT !.total_gamma = GZero, !.moves[c] = <<>>],
              c, S.moves[c], LocalValueInit(S.bd))

\* update_moves forgetting the moves the color played since the last update.
UpdateNew_ClearsOnly(S, c) == [S EXCEPT !.new_moves[c] = <<>>]

\* update_moves, "Find new legal moves because of new pieces played by
\* this color".
UpdateNew(S, c) ==
    [AddAtNewAttach(S, c, ConcatAttach(S.new_moves[c]), PiecesConsidered(S, c))
        EXCEPT !.new_moves[c] = <<>>]

\* The pieces the new table lists and the old one did not.
NewlyConsidered(S, c, new_table) ==
    SelectSeq(S.bd.pl[c],
              LAMBDA piece : /\ ~PieceConsidered(S.is_piece_considered[c], piece)
                             /\ PieceConsidered(new_table, piece))

UpdateWidenTo(S, c, new_table) ==
    IF S.is_piece_considered[c] = new_table THEN S
    ELSE [AddPiecesAtPoints(S, c, S.bd.ap[c], NewlyConsidered(S, c, new_table))
             EXCEPT !.is_piece_considered[c] = new_table]

UpdateForce(S, c) ==
    IF S.moves[c] = <<>> THEN [S EXCEPT !.force_consider_all_pieces = TRUE] ELSE S

UpdateWidenForced(S, c) == UpdateWidenTo(S, c, get_pieces_considered(S))

\* update_moves, "Generate moves for pieces not considered in the last
\* position".
UpdateWiden(S, c) ==
    IF S.is_piece_considered[c] = is_piece_considered_all THEN S
    ELSE UpdateWidenForced(UpdateForce(S, c), c)

\* State::update_moves
update_moves(S, c) == UpdateWiden(UpdateNew(UpdateOld(S, c), c), c)

RECURSIVE SymmetryBrokenBy(_, _, _)
\* The loops of update_symmetry_broken over the points of the move.
RECURSIVE SymmetryBrokenBy_OwnerForBoth(_, _, _)
\* The check of the first branch whoever is to play.
SymmetryBrokenBy_OwnerForBoth(b, points, first_to_play) ==
    IF points = <<>> THEN FALSE
    ELSE b.ps[symmetric_points(Head(points))] # get_second_color(b, b.tp)
         \/ SymmetryBrokenBy_OwnerForBoth(b, Tail(points), first_to_play)

RECURSIVE SymmetryBrokenBy_EmptyForBoth(_, _, _)
\* The check of the second branch whoever is to play.
SymmetryBrokenBy_EmptyForBoth(b, points, first_to_play) ==
    IF points = <<>> THEN FALSE
    ELSE b.ps[symmetric_points(Head(points))] # Empty
         \/ SymmetryBrokenBy_EmptyForBoth(b, Tail(points), first_to_play)

SymmetryBrokenBy(b, points, first_to_play) ==
    IF points = <<>> THEN FALSE
    ELSE LET s == b.ps[symmetric_points(Head(points))]
         IN IF first_to_play
            THEN (s # get_second_color(b, b.tp)
                  \/ SymmetryBrokenBy(b, Tail(points), first_to_play))
            ELSE (s # Empty \/ SymmetryBrokenBy(b, Tail(points), first_to_play))

\* State::update_symmetry_broken
update_symmetry_broken(S, mv) ==
    IF SymmetryBrokenBy(S.bd, get_move_info(mv), S.bd.tp = 0 \/ S.bd.tp = 2)
    THEN [S EXCEPT !.is_symmetry_broken = TRUE]
    ELSE S

\* play_playout assigning the outcome of the symmetry check to the flag.
PlayedSymmetry_Assigns(S, mv) ==
    [S EXCEPT !.is_symmetry_broken =
        SymmetryBrokenBy(S.bd, get_move_info(mv), S.bd.tp = 0 \/ S.bd.tp = 2)]

PlayedSymmetry(S, mv) ==
    IF ~S.is_symmetry_broken THEN update_symmetry_broken(S, mv) ELSE S

\* play_playout that leaves the pass counter alone.
play_playout_KeepsPasses(S, mv) ==
    PlayedSymmetry([S EXCEPT !.new_moves[S.bd.tp] = Append(@, mv),
                             !.bd = play_nonpass(S.bd, mv),
                             !.played = Append(@, <<S.bd.tp, mv>>)],
                   mv)

\* State::play_playout
play_playout(S, mv) ==
    PlayedSymmetry([S EXCEPT !.new_moves[S.bd.tp] = Append(@, mv),
                             !.bd = play_nonpass(S.bd, mv),
                             !.nu_passes = 0,
                             !.played = Append(@, <<S.bd.tp, mv>>)],
                   mv)

\* State::play_expanded_child
play_expanded_child(S, mv) ==
    IF mv # MovePass THEN play_playout(S, mv)
    ELSE [S EXCEPT !.bd = play_pass(S.bd),
                   !.nu_passes = @ + 1,
                   !.is_symmetry_broken = TRUE,
                   !.played = Append(@, <<S.bd.tp, MovePass>>)]

\* boardutil::check_symmetry_broken on the root position (external).
check_symmetry_broken(b) ==
    \E p \in Points :
        /\ b.ps[p] # Empty
        /\ IF b.tp = 0 \/ b.tp = 2
           THEN b.ps[symmetric_points(p)] \in {Empty, b.ps[p]}
           ELSE b.ps[p] = b.tp /\ b.ps[symmetric_points(p)] \in {Empty, b.tp}

RECURSIVE TrailingPasses(_)
\* The loop of start_simulation over the move history.
TrailingPasses(hist) ==
    IF hist = <<>> \/ hist[Len(hist)][2] # MovePass THEN 0
    ELSE 1 + TrailingPasses(SubSeq(hist, 1, Len(hist) - 1))

\* libboardgame_util::Statistics (external), kept as count, sum and sum of
\* squares of the samples.
StatClear == [count |-> 0, sum |-> 0, sum_sq |-> 0]

StatAdd(stat, v) ==
    [count |-> stat.count + 1, sum |-> stat.sum + v, sum_sq |-> stat.sum_sq + v * v]

\* Statistics::get_deviation() > 0
StatHasDeviation(stat) == stat.count * stat.sum_sq > stat.sum * stat.sum

\* The moves per color up to which a search may end playouts early: 10 in
\* the program, where a color has 21 pieces; 1 with the three pieces of the
\* model, so that searches start on either side of the limit.
TerminateEarlyMoves == 1

\* start_search enabling the early end of playouts whatever the root.
check_terminate_early_AnyRoot(bd) == get_nu_players(bd) = 2

\* m_check_terminate_early as start_search computes it.
check_terminate_early(bd) ==
    get_nu_moves(bd) < TerminateEarlyMoves * get_nu_colors(bd) /\ get_nu_players(bd) = 2

\* State::start_search
start_search(S, bd, to_play, avoid_symmetric_draw) ==
    LET b == set_to_play(bd, to_play)
    IN [S EXCEPT
          !.bd = b,
          !.snapshot = b,
          !.nu_colors = get_nu_colors(bd),
          !.nu_moves_initial = get_nu_moves(bd),
          !.check_terminate_early = check_terminate_early(bd),
          !.nu_simulations = 0,
          !.nu_playout_moves = 0,
          !.nu_last_good_reply_moves = 0,
          !.check_symmetric_draw =
              (/\ bd.variant = "duo"
               /\ ~((to_play = 1 \/ to_play = 3) /\ avoid_symmetric_draw)
               /\ ~check_symmetry_broken(bd)),
          !.symmetry_min_nu_pieces = 3,
          !.stat_score = [c \in MaxColors |->
                             IF c < get_nu_colors(bd) THEN StatClear ELSE @[c]],
          !.stat_len = StatClear,
          !.gamma_piece = GammaPieceTable(BoardTypeOf(bd.variant))]

\* start_simulation without the count of the trailing passes.
start_simulation_KeepsPasses(S) ==
    LET cs == 0 .. (S.nu_colors - 1)
        reset(f, v) == [c \in MaxColors |-> IF c \in cs THEN v ELSE f[c]]
    IN [S EXCEPT
          !.nu_simulations = @ + 1,
          !.bd = S.snapshot,
          !.force_consider_all_pieces = FALSE,
          !.has_moves = reset(S.has_moves, TRUE),
          !.is_move_list_initialized = reset(S.is_move_list_initialized, FALSE),
          !.new_moves = reset(S.new_moves, <<>>),
          !.moves_added_at = reset(S.moves_added_at, {}),
          !.played = <<>>]

\* State::start_simulation
start_simulation(S) ==
    LET cs == 0 .. (S.nu_colors - 1)
        reset(f, v) == [c \in MaxColors |-> IF c \in cs THEN v ELSE f[c]]
    IN [S EXCEPT
          !.nu_simulations = @ + 1,
          !.bd = S.snapshot,
          !.force_consider_all_pieces = FALSE,
          !.has_moves = reset(S.has_moves, TRUE),
          !.is_move_list_initialized = reset(S.is_move_list_initialized, FALSE),
          !.new_moves = reset(S.new_moves, <<>>),
          !.moves_added_at = reset(S.moves_added_at, {}),
          !.nu_passes = TrailingPasses(S.snapshot.hist),
          !.played = <<>>]

\* gen_playout_move counting the playout move before the all-passed check.
gen_playout_move_begin_CountsFirst(S, lgr1, lgr2) ==
    IF S.nu_passes = S.nu_colors
    THEN [S |-> [S EXCEPT !.nu_playout_moves = @ + 1],
          outcome |-> "all_passed", mv |-> MoveNull]
    ELSE IF ~S.is_symmetry_broken
            /\ get_nu_onboard_pieces(S.bd) >= S.symmetry_min_nu_pieces
    THEN [S |-> S, outcome |-> "symmetry", mv |-> MoveNull]
    ELSE IF IsRegular(lgr2) /\ is_legal_nonpass(S.bd, lgr2)
    THEN [S |-> [S EXCEPT !.nu_playout_moves = @ + 1,
                          !.nu_last_good_reply_moves = @ + 1],
          outcome |-> "lgr2", mv |-> lgr2]
    ELSE IF IsRegular(lgr1) /\ is_legal_nonpass(S.bd, lgr1)
    THEN [S |-> [S EXCEPT !.nu_playout_moves = @ + 1,
                          !.nu_last_good_reply_moves = @ + 1],
          outcome |-> "lgr1", mv |-> lgr1]
    ELSE [S |-> [S EXCEPT !.nu_playout_moves = @ + 1],
          outcome |-> "loop", mv |-> MoveNull]

\* gen_playout_move trying lgr1 before lgr2.
gen_playout_move_begin_Lgr1First(S, lgr1, lgr2) ==
    IF S.nu_passes = S.nu_colors
    THEN [S |-> S, outcome |-> "all_passed", mv |-> MoveNull]
    ELSE IF ~S.is_symmetry_broken
            /\ get_nu_onboard_pieces(S.bd) >= S.symmetry_min_nu_pieces
    THEN [S |-> S, outcome |-> "symmetry", mv |-> MoveNull]
    ELSE IF IsRegular(lgr1) /\ is_legal_nonpass(S.bd, lgr1)
    THEN [S |-> [S EXCEPT !.nu_playout_moves = @ + 1,
                          !.nu_last_good_reply_moves = @ + 1],
          outcome |-> "lgr1", mv |-> lgr1]
    ELSE IF IsRegular(lgr2) /\ is_legal_nonpass(S.bd, lgr2)
    THEN [S |-> [S EXCEPT !.nu_playout_moves = @ + 1,
                          !.nu_last_good_reply_moves = @ + 1],
          outcome |-> "lgr2", mv |-> lgr2]
    ELSE [S |-> [S EXCEPT !.nu_playout_moves = @ + 1],
          outcome |-> "loop", mv |-> MoveNull]

\* gen_playout_move up to the last-good-reply checks.  The outcome is
\* "all_passed" or "symmetry" (return false), "lgr2" or "lgr1" (return true
\* with a reply) or "loop".
gen_playout_move_begin(S, lgr1, lgr2) ==
    IF S.nu_passes = S.nu_colors
    THEN [S |-> S, outcome |-> "all_passed", mv |-> MoveNull]
    ELSE IF ~S.is_symmetry_broken
            /\ get_nu_onboard_pieces(S.bd) >= S.symmetry_min_nu_pieces
    THEN [S |-> S, outcome |-> "symmetry", mv |-> MoveNull]
    ELSE IF IsRegular(lgr2) /\ is_legal_nonpass(S.bd, lgr2)
    THEN [S |-> [S EXCEPT !.nu_playout_moves = @ + 1,
                          !.nu_last_good_reply_moves = @ + 1],
          outcome |-> "lgr2", mv |-> lgr2]
    ELSE IF IsRegular(lgr1) /\ is_legal_nonpass(S.bd, lgr1)
    THEN [S |-> [S EXCEPT !.nu_playout_moves = @ + 1,
                          !.nu_last_good_reply_moves = @ + 1],
          outcome |-> "lgr1", mv |-> lgr1]
    ELSE [S |-> [S EXCEPT !.nu_playout_moves = @ + 1],
          outcome |-> "loop", mv |-> MoveNull]

\* Which list operation one iteration of the loop runs for the color to play.
ListOp(S) ==
    IF ~S.is_move_list_initialized[S.bd.tp] THEN "init"
    ELSE IF S.has_moves[S.bd.tp] THEN "update" ELSE "none"

\* The loop of gen_playout_move: initialize or update the list of the color
\* to play and set m_has_moves.
IterationList(S, op) ==
    CASE op = "init" -> init_moves_with_gamma(S, S.bd.tp)
      [] op = "update" -> update_moves(S, S.bd.tp)
      [] OTHER -> S

\* The loop of gen_playout_move setting m_has_moves to moves.empty().
IterationHasMoves_Inverted(S) ==
    [S EXCEPT !.has_moves[S.bd.tp] = (S.moves[S.bd.tp] = <<>>)]

IterationHasMoves(S) ==
    [S EXCEPT !.has_moves[S.bd.tp] = (S.moves[S.bd.tp] # <<>>)]

\* The loop of gen_playout_move counting the pass before it tests whether
\* it is the last one.
IterationDecide_CountsLast(S) ==
    IF S.has_moves[S.bd.tp] THEN [S |-> S, outcome |-> "break"]
    ELSE IF S.nu_passes + 1 = S.nu_colors
    THEN [S |-> [S EXCEPT !.nu_passes = @ + 1], outcome |-> "last_pass"]
    ELSE IF /\ S.check_terminate_early
            /\ get_score(S.bd, S.bd.tp) < 0
            /\ ~S.has_moves[get_second_color(S.bd, S.bd.tp)]
    THEN [S |-> S, outcome |-> "early"]
    ELSE [S |-> [S EXCEPT !.nu_passes = @ + 1,
                          !.bd = set_to_play(S.bd, get_next(S.bd, S.bd.tp)),
                          !.is_symmetry_broken = TRUE],
          outcome |-> "pass"]

\* gen_playout_move recording the pass of a color without moves on the
\* board instead of only handing the turn to the next color.
IterationDecide_PlaysPass(S) ==
    IF S.has_moves[S.bd.tp] THEN [S |-> S, outcome |-> "break"]
    ELSE IF S.nu_passes + 1 = S.nu_colors THEN [S |-> S, outcome |-> "last_pass"]
    ELSE IF /\ S.check_terminate_early
            /\ get_score(S.bd, S.bd.tp) < 0
            /\ ~S.has_moves[get_second_color(S.bd, S.bd.tp)]
    THEN [S |-> S, outcome |-> "early"]
    ELSE [S |-> [S EXCEPT !.nu_passes = @ + 1,
                          !.bd = play_pass(S.bd),
                          !.is_symmetry_broken = TRUE],
          outcome |-> "pass"]

\* The loop without the return at the last pass: it skips every color
\* that has no moves.
IterationDecide_SkipsOn(S) ==
    IF S.has_moves[S.bd.tp] THEN [S |-> S, outcome |-> "break"]
    ELSE IF /\ S.check_terminate_early
            /\ get_score(S.bd, S.bd.tp) < 0
            /\ ~S.has_moves[get_second_color(S.bd, S.bd.tp)]
    THEN [S |-> S, outcome |-> "early"]
    ELSE [S |-> [S EXCEPT !.nu_passes = @ + 1,
                          !.bd = set_to_play(S.bd, get_next(S.bd, S.bd.tp)),
                          !.is_symmetry_broken = TRUE],
          outcome |-> "pass"]

\* The loop of gen_playout_move after the list is known.  The outcome is
\* "break" (a non-empty list), "last_pass" or "early" (return false), or
\* "pass".
IterationDecide(S) ==
    IF S.has_moves[S.bd.tp] THEN [S |-> S, outcome |-> "break"]
    ELSE IF S.nu_passes + 1 = S.nu_colors THEN [S |-> S, outcome |-> "last_pass"]
    ELSE IF /\ S.check_terminate_early
            /\ get_score(S.bd, S.bd.tp) < 0
            /\ ~S.has_moves[get_second_color(S.bd, S.bd.tp)]
    THEN [S |-> S, outcome |-> "early"]
    ELSE [S |-> [S EXCEPT !.nu_passes = @ + 1,
                          !.bd = set_to_play(S.bd, get_next(S.bd, S.bd.tp)),
                          !.is_symmetry_broken = TRUE],
          outcome |-> "pass"]

\* One iteration of the while loop of gen_playout_move.
gen_playout_move_iteration(S) ==
    IterationDecide(IterationHasMoves(IterationList(S, ListOp(S))))

RECURSIVE upper_bound(_, _, _, _)
\* std::upper_bound: the first element greater than value.
upper_bound(cum, first, count, value) ==
    IF count <= 0 THEN first
    ELSE LET step == count \div 2
             it   == first + step
         IN IF GLeq(cum[it], value)
            THEN upper_bound(cum, it + 1, count - (step + 1), value)
            ELSE upper_bound(cum, first, step, value)

RECURSIVE lower_bound(_, _, _, _)
\* std::lower_bound on m_cumulative_gamma[first, first + count): binary
\* search for the first element not less than value.
lower_bound(cum, first, count, value) ==
    IF count <= 0 THEN first
    ELSE LET step == count \div 2
             it   == first + step
         IN IF GLess(cum[it], value)
            THEN lower_bound(cum, it + 1, count - (step + 1), value)
            ELSE lower_bound(cum, first, step, value)

\* generate_double(): k / RandDenom in [0, 1).
RandomDraws == 0 .. (RandDenom - 1)

\* The position in the list of the color to play that the sampling step of
\* gen_playout_move selects for the draw k / RandDenom.  Both sides of the
\* comparison are multiplied by RandDenom.
SamplePos(S, k) ==
    LET size   == Len(S.moves[S.bd.tp])
        scaled == [i \in 0 .. (Len(S.cumulative_gamma) - 1) |->
                     GScale(S.cumulative_gamma[i + 1], RandDenom)]
        random == GScale(S.total_gamma, k)
    IN lower_bound(scaled, 0, size, random)

\* The first branch of evaluate_playout: the position is scored as a
\* symmetric draw.
\* The symmetric draw requiring more than symmetry_min_nu_pieces pieces.
evaluate_playout_is_symmetric_draw_Strict(S) ==
    /\ ~S.is_symmetry_broken
    /\ get_nu_onboard_pieces(S.bd) > S.symmetry_min_nu_pieces

evaluate_playout_is_symmetric_draw(S) ==
    /\ ~S.is_symmetry_broken
    /\ get_nu_onboard_pieces(S.bd) >= S.symmetry_min_nu_pieces

(***************************************************************************)
(* evaluate_playout.  Floats are kept as exact multiples of 1/ResultOne.   *)
(* libboardgame_util::Statistics is external: a statistic is kept as its   *)
(* count, sum and sum of squares, which give the sign of a sample's        *)
(* distance from the mean and whether the deviation is positive.  The      *)
(* sigmoid is not computed: it is zero at zero, has the sign of its        *)
(* argument, and its magnitude is one of SigmoidValues / SigmoidDenom.     *)
(***************************************************************************)
ResultOne == 36000
ResultHalf == ResultOne \div 2

SigmoidDenom == 4
SigmoidValues == {1, 3}

\* sigmoid(2, (v - mean) / dev), in units of 1/SigmoidDenom.
sigmoid(stat, v, level) ==
    IF v * stat.count > stat.sum THEN level
    ELSE IF v * stat.count < stat.sum THEN -level
    ELSE 0

\* Values an entry of result_array the code never assigns may hold.
Indeterminate == {0, ResultHalf}

RECURSIVE InsertSorted(_, _)
InsertSorted(s, v) ==
    IF s = <<>> THEN <<v>>
    ELSE IF v <= Head(s) THEN <<v>> \o s
    ELSE <<Head(s)>> \o InsertSorted(Tail(s), v)

RECURSIVE SortPoints(_, _)
\* sort(sorted_points.begin(), sorted_points.begin() + m_nu_colors):
\* sorted_points[j] is element j + 1 of the sequence.
SortPoints(points, n) ==
    IF n = 0 THEN <<>> ELSE InsertSorted(SortPoints(points, n - 1), points[n - 1])

\* What evaluate_playout reads from the board.
EvalInput(S) ==
    [nu_colors  |-> S.nu_colors,
     nu_players |-> get_nu_players(S.bd),
     points     |-> [c \in MaxColors |->
                        IF c < S.nu_colors THEN get_points_with_bonus(S.bd, c) ELSE 0],
     score      |-> [c \in MaxColors |->
                        IF c < get_nu_players(S.bd) THEN get_score(S.bd, c)
                        ELSE IF c < S.nu_colors THEN get_score(S.bd, c - 2) ELSE 0],
     nu_moves   |-> get_nu_moves(S.bd)]

\* The result of a game between two players.
GameResultTwo(s) ==
    IF s > 0 THEN ResultOne ELSE IF s < 0 THEN 0 ELSE ResultHalf

\* The rank sum, not divided by the number of equal scores.
GameResultRanked_NoAverage(in, c) ==
    LET sorted == SortPoints(in.points, in.nu_colors)
        ranks  == {j \in 0 .. (in.nu_colors - 1) : sorted[j + 1] = in.points[c]}
    IN SumSeq([k \in 1 .. Cardinality(ranks) |->
                   (SetToSeq(ranks)[k] * ResultOne) \div (in.nu_colors - 1)])

\* The result of a game between more than two players: the mean of
\* j / (nu_colors - 1) over the ranks j whose points equal those of c.
GameResultRanked(in, c) ==
    LET sorted == SortPoints(in.points, in.nu_colors)
        ranks  == {j \in 0 .. (in.nu_colors - 1) : sorted[j + 1] = in.points[c]}
    IN SumSeq([k \in 1 .. Cardinality(ranks) |->
                   (SetToSeq(ranks)[k] * ResultOne) \div (in.nu_colors - 1)])
       \div Cardinality(ranks)

ScoreBonus(stat, s, level) ==
    IF StatHasDeviation(stat)
    THEN ((ResultOne \div 5) * sigmoid(stat, s, level)) \div SigmoidDenom
    ELSE 0

\* The length bonus taken from every player who did not lose, a tie and an
\* intermediate rank included.
LengthBonus_AnyResult(stat, l, game_result, level) ==
    LET b == (((ResultOne * 12) \div 100) * sigmoid(stat, l, level)) \div SigmoidDenom
    IN IF ~StatHasDeviation(stat) THEN 0
       ELSE IF game_result = 0 THEN b
       ELSE -b

LengthBonus(stat, l, game_result, level) ==
    LET b == (((ResultOne * 12) \div 100) * sigmoid(stat, l, level)) \div SigmoidDenom
    IN IF ~StatHasDeviation(stat) THEN 0
       ELSE IF game_result = ResultOne THEN -b
       ELSE IF game_result = 0 THEN b
       ELSE 0

\* The body of the loop over the players for player i, after the values
\* acc the earlier players left.
EvalPlayerWith(acc, in, i, game_result, score_level, len_level) ==
    LET stat_score == StatAdd(acc.stat_score[i], in.score[i])
        stat_len   == StatAdd(acc.stat_len, in.nu_moves)
        res        == game_result
                      + ScoreBonus(stat_score, in.score[i], score_level)
                      + LengthBonus(stat_len, in.nu_moves, game_result, len_level)
    IN [result      |-> [acc.result EXCEPT ![i] = res],
        game_result |-> [acc.game_result EXCEPT ![i] = game_result],
        stat_score  |-> [acc.stat_score EXCEPT ![i] = stat_score],
        stat_len    |-> stat_len]

\* The second player getting the complement of the first player's game
\* result, without the bonuses.
EvalPlayer_BaseComplement(acc, in, i, score_level, len_level) ==
    IF in.nu_players = 2 /\ i = 1
    THEN [acc EXCEPT !.result[1] = ResultOne - acc.game_result[0]]
    ELSE EvalPlayerWith(acc, in, i,
                        IF in.nu_players = 2 THEN GameResultTwo(in.score[i])
                        ELSE GameResultRanked(in, i),
                        score_level, len_level)

EvalPlayer(acc, in, i, score_level, len_level) ==
    IF in.nu_players = 2 /\ i = 1
    THEN [acc EXCEPT !.result[1] = ResultOne - acc.result[0]]
    ELSE EvalPlayerWith(acc, in, i,
                        IF in.nu_players = 2 THEN GameResultTwo(in.score[i])
                        ELSE GameResultRanked(in, i),
                        score_level, len_level)

RECURSIVE EvalPlayers(_, _, _, _, _)
\* The loop over the players 0 .. n - 1.
EvalPlayers(acc, in, n, score_level, len_level) ==
    IF n = 0 THEN acc
    ELSE EvalPlayer(EvalPlayers(acc, in, n - 1, score_level, len_level),
                    in, n - 1, score_level, len_level)

\* evaluate_playout without the copy to the second colors.
EvalCopy_Omitted(acc, in) == acc

\* The copy of the results to the second colors of the two players.
EvalCopy(acc, in) ==
    IF in.nu_colors > in.nu_players
    THEN [acc EXCEPT !.result[2] = acc.result[0], !.result[3] = acc.result[1]]
    ELSE acc

\* Marks a game_result the code did not compute.
NoGameResult == -ResultOne

\* State::evaluate_playout on the values in read from the board: the
\* array returned, the game results computed and the statistics left.
\* garbage is what result_array holds before the code assigns it.
evaluate_playout_scored(stat_score, stat_len, in, garbage, score_level, len_level) ==
    EvalCopy(EvalPlayers([result      |-> garbage,
                          game_result |-> [c \in MaxColors |-> NoGameResult],
                          stat_score  |-> stat_score,
                          stat_len    |-> stat_len],
                         in, in.nu_players, score_level, len_level),
             in)

SymmetricDrawResult == [c \in MaxColors |-> ResultHalf]

evaluate_playout(S, garbage, score_level, len_level) ==
    IF evaluate_playout_is_symmetric_draw(S)
    THEN [result      |-> SymmetricDrawResult,
          game_result |-> [c \in MaxColors |-> NoGameResult],
          stat_score  |-> S.stat_score,
          stat_len    |-> S.stat_len]
    ELSE evaluate_playout_scored(S.stat_score, S.stat_len, EvalInput(S),
                                 garbage, score_level, len_level)

(***************************************************************************)
(* gen_playout_move and gen_and_play_playout_move as single calls, built   *)
(* from the parts above.                                                   *)
(***************************************************************************)
RECURSIVE gen_playout_move_next_iteration(_)
\* The while loop of gen_playout_move up to its break or return.
gen_playout_move_loop(S) ==
    gen_playout_move_next_iteration(gen_playout_move_iteration(S))

\* After an iteration that played a pass the loop runs again.
gen_playout_move_next_iteration(i) ==
    IF i.outcome = "pass" THEN gen_playout_move_loop(i.S) ELSE i

\* The sampling step for the draw k / RandDenom; the assertion pos != end
\* fails when the position found is the end of the list.
gen_playout_move_sample(S, k) ==
    IF SamplePos(S, k) < Len(S.moves[S.bd.tp])
    THEN [S       |-> [S EXCEPT !.random = (@ + 1) % RandPeriod],
          outcome |-> "sampled",
          mv      |-> S.moves[S.bd.tp][SamplePos(S, k) + 1]]
    ELSE [S |-> S, outcome |-> "failed", mv |-> MoveNull]

gen_playout_move_after_loop(l, k) ==
    IF l.outcome = "break"
    THEN gen_playout_move_sample(l.S, k)
    ELSE [S |-> l.S, outcome |-> l.outcome, mv |-> MoveNull]

gen_playout_move_after_begin(b, k) ==
    IF b.outcome = "loop"
    THEN gen_playout_move_after_loop(gen_playout_move_loop(b.S), k)
    ELSE b

\* State::gen_playout_move: the state left, how the call ended, and the
\* move produced when it returns true.
gen_playout_move(S, lgr1, lgr2, k) ==
    gen_playout_move_after_begin(gen_playout_move_begin(S, lgr1, lgr2), k)

GenReturnsTrue(g) == g.outcome \in {"lgr1", "lgr2", "sampled"}

gen_and_play_after_gen(g) ==
    IF ~GenReturnsTrue(g) THEN g
    ELSE IF is_legal_nonpass(g.S.bd, g.mv)
    THEN [g EXCEPT !.S = play_playout(g.S, g.mv)]
    ELSE [g EXCEPT !.outcome = "failed"]

\* State::gen_and_play_playout_move; the assertion of play_playout fails
\* when the move produced is not legal.
gen_and_play_playout_move(S, lgr1, lgr2, k) ==
    gen_and_play_after_gen(gen_playout_move(S, lgr1, lgr2, k))

(***************************************************************************)
(* The Player object (libpentobi_mcts/Player.h): the playing level and the *)
(* fixed budgets that override it.                                         *)
(***************************************************************************)
\* Levels and fixed budgets (simulations, seconds) handed to the setters.
MaxLevel == 4
MaxFixed == 3
Levels == 1 .. MaxLevel
FixedValues == 0 .. MaxFixed

\* set_fixed_time that leaves the fixed number of simulations alone.
set_fixed_time_KeepsSimulations(P, seconds) ==
    [P EXCEPT !.fixed_time = seconds]

set_fixed_simulations(P, n) ==
    [P EXCEPT !.fixed_simulations = n, !.fixed_time = 0]

set_fixed_time(P, seconds) ==
    [P EXCEPT !.fixed_time = seconds, !.fixed_simulations = 0]

set_level(P, level) ==
    [P EXCEPT !.level = level, !.fixed_simulations = 0, !.fixed_time = 0]

set_use_book(P, enable) ==
    [P EXCEPT !.use_book = enable]

\* The call that produced the Player object Q from P.
Called(P, Q, op, arg) ==
    [Q EXCEPT !.last = [op |-> op, arg |-> arg,
                        fixed_simulations |-> P.fixed_simulations,
                        fixed_time |-> P.fixed_time]]

(***************************************************************************)
(* The search driver and the shared tree (libboardgame_mcts::Search), not  *)
(* part of the translated sources: modelled from the specification         *)
(* (sections 4.3, 4.4, 5 and 7).  The tree is an arena of NuNodes nodes:   *)
(* the root, its two possible children, and one possible child of each.    *)
(***************************************************************************)
\* Worker threads of a search.
MaxWorkers == 2
\* Largest max_count and min_simulations of a search.
MaxCount == 2
\* The clock of the time source stops at MaxElapsed.
MaxElapsed == 1

Workers == 1 .. MaxWorkers
NuNodes == 5
Nodes == 0 .. (NuNodes - 1)
Root == 0
NodeNull == 0 - 1

\* The children a node gets when it is expanded.
NodeMoves(n, nu_root_children) ==
    IF n = Root THEN 1 .. nu_root_children
    ELSE IF n \in {1, 2} THEN {n + 2}
    ELSE {}

NewNode == [expansion |-> "unexpanded", children |-> {}, count |-> 0]

\* Order of the expansion states.
ExpansionRank(e) ==
    CASE e = "unexpanded" -> 0
      [] e = "expanding"  -> 1
      [] e = "expanded"   -> 2

\* Compare-and-swap that stores the new state whatever the node holds.
compare_and_swap_Blind(nodes, n, expected, desired) ==
    [ok |-> TRUE, nodes |-> [nodes EXCEPT ![n].expansion = desired]]

\* Compare-and-swap on the expansion state of node n.
compare_and_swap(nodes, n, expected, desired) ==
    IF nodes[n].expansion = expected
    THEN [ok |-> TRUE, nodes |-> [nodes EXCEPT ![n].expansion = desired]]
    ELSE [ok |-> FALSE, nodes |-> nodes]

\* Termination by the simulation count that forgets min_simulations.
count_reached_IgnoresMin(D) ==
    D.simulations >= D.max_count

\* Criterion (a): the target number of simulations is reached.
count_reached(D) ==
    /\ D.simulations >= D.max_count
    /\ D.simulations >= D.min_simulations

\* Criterion (b): the time is used up.
time_reached(D) ==
    /\ D.elapsed >= D.max_time
    /\ D.simulations >= D.min_simulations

\* The reason a worker finds between two simulations to end the search,
\* "none" if it goes on.
check_stop(D) ==
    CASE D.stop # "none"       -> D.stop
      [] D.abort               -> "abort"
      [] D.memory_exhausted    -> "memory"
      [] count_reached(D)      -> "count"
      [] OTHER                 -> "none"

\* The root child with the highest visit count (the first of them).
best_child(D) ==
    LET cs == D.nodes[Root].children
    IN CHOOSE c \in cs :
         \A d \in cs : \/ D.nodes[d].count < D.nodes[c].count
                       \/ (D.nodes[d].count = D.nodes[c].count /\ c <= d)

\* Move selection that returns the best child after every search.
select_move_AlwaysBest(D) ==
    best_child(D)

\* The move the search returns.
select_move(D) ==
    IF D.stop = "abort" /\ D.simulations < D.min_simulations
    THEN NodeNull
    ELSE best_child(D)

\* The driver at the start of a search: the root is expanded, and a root
\* with one legal move ends the search at once (criterion (e)).
NewSearch(max_count, min_simulations, memory, nu_root_children) ==
    [phase            |-> "running",
     max_count        |-> max_count,
     min_simulations  |-> min_simulations,
     max_time         |-> MaxElapsed,
     memory           |-> memory,
     nu_root_children |-> nu_root_children,
     nodes            |-> [n \in Nodes |->
                             IF n = Root
                             THEN [expansion |-> "expanded",
                                   children  |-> NodeMoves(Root, nu_root_children),
                                   count     |-> 0]
                             ELSE NewNode],
     allocated        |-> 1 + nu_root_children,
     memory_exhausted |-> FALSE,
     elapsed          |-> 0,
     abort            |-> FALSE,
     simulations      |-> 0,
     started          |-> 0,
     stop             |-> IF nu_root_children = 1 THEN "single" ELSE "none",
     stopped_at       |-> 0,
     in_flight        |-> 0,
     worker           |-> [w \in Workers |->
                             [pc |-> "check", node |-> Root, first |-> Root,
                              seen |-> "unexpanded"]],
     winners          |-> [n \in Nodes |-> 0],
     cas_failed       |-> FALSE,
     read_early       |-> FALSE,
     move             |-> NodeNull]

\* Workers inside a simulation.
InFlight(D) == Cardinality({w \in Workers : D.worker[w].pc \notin {"check", "joined"}})

\* Between two simulations worker w looks at the termination criteria: it
\* joins if the search is over and starts the next simulation otherwise.
worker_check(D, w) ==
    LET reason == check_stop(D)
    IN IF reason # "none"
       THEN [D EXCEPT !.stop = reason,
                      !.stopped_at = IF D.stop = "none" THEN D.simulations ELSE @,
                      !.in_flight = IF D.stop = "none" THEN InFlight(D) ELSE @,
                      !.worker[w].pc = "joined"]
       ELSE [D EXCEPT !.started = @ + 1,
                      !.worker[w] = [pc |-> "select", node |-> Root,
                                     first |-> Root, seen |-> "unexpanded"]]

\* Worker w loads the expansion state of the node it stands on; a node
\* that cannot have children is the end of the descent.
worker_load(D, w) ==
    LET n == D.worker[w].node
    IN IF NodeMoves(n, D.nu_root_children) = {}
       THEN [D EXCEPT !.worker[w].pc = "playout"]
       ELSE [D EXCEPT !.worker[w].pc = "act",
                      !.worker[w].seen = D.nodes[n].expansion]

\* Worker w descends from an expanded node to its child c.
worker_descend(D, w, c) ==
    LET n == D.worker[w].node
    IN [D EXCEPT !.read_early = @ \/ D.nodes[n].expansion # "expanded",
                 !.worker[w].pc = "select",
                 !.worker[w].node = c,
                 !.worker[w].first = IF n = Root THEN c ELSE @]

\* Worker w tries to expand the unexpanded node it stands on: without room
\* in the arena the search takes note and the playout starts here; the
\* winner of the compare-and-swap reserves the children and expands; a
\* loser looks at the node again (wait) or starts its playout here.
worker_try_expand(D, w, wait) ==
    LET n    == D.worker[w].node
        need == Cardinality(NodeMoves(n, D.nu_root_children))
        cas  == compare_and_swap(D.nodes, n, "unexpanded", "expanding")
    IN IF D.allocated + need > D.memory
       THEN [D EXCEPT !.memory_exhausted = TRUE, !.worker[w].pc = "playout"]
       ELSE IF cas.ok
       THEN [D EXCEPT !.nodes = cas.nodes,
                      !.allocated = @ + need,
                      !.winners[n] = @ + 1,
                      !.worker[w].pc = "expand"]
       ELSE [D EXCEPT !.cas_failed = TRUE,
                      !.worker[w].pc = IF wait THEN "select" ELSE "playout"]

\* Worker w found the node being expanded by another worker.
worker_wait(D, w, wait) ==
    [D EXCEPT !.worker[w].pc = IF wait THEN "select" ELSE "playout"]

\* The expanding worker publishes the children and marks the node expanded.
worker_expand(D, w) ==
    LET n == D.worker[w].node
    IN [D EXCEPT !.nodes[n].children = NodeMoves(n, D.nu_root_children),
                 !.nodes[n].expansion = "expanded",
                 !.worker[w].pc = "playout"]

\* The playout of worker w ends and its result is backed up to the root.
worker_backup(D, w) ==
    LET first == D.worker[w].first
    IN [D EXCEPT !.nodes = [n \in Nodes |->
                              IF n \in {Root, first}
                              THEN [D.nodes[n] EXCEPT !.count = @ + 1]
                              ELSE D.nodes[n]],
                 !.simulations = @ + 1,
                 !.worker[w].pc = "check"]

\* The driver polls the time source between simulation batches.
poll_time(D) ==
    IF D.stop = "none" /\ time_reached(D)
    THEN [D EXCEPT !.stop = "time", !.stopped_at = D.simulations,
                   !.in_flight = InFlight(D)]
    ELSE D

\* All workers have joined: the search returns its move.
search_return(D) ==
    [D EXCEPT !.phase = "done", !.move = select_move(D)]

(***************************************************************************)
(* The state machine: one worker's State object driven by the search.      *)
(*   st       the State object                                             *)
(*   pc       where the search is in the simulation lifecycle ("failed":   *)
(*            an assertion stopped the program)                            *)
(*   mv       the move the last gen_playout_move produced                  *)
(*   ret      how the last gen_playout_move call returned                  *)
(*   examined the colors the loop of the current gen_playout_move call     *)
(*            has examined                                                 *)
(*   result   what evaluate_playout returned for the current simulation,   *)
(*            with the game results it computed on the way                 *)
(*   player   the Player object (level and fixed budgets)                  *)
(*   search   the search driver: tree, workers and termination             *)
(*   twin     two runs of the engine on the same inputs, side by side      *)
(*   analyze  the AnalyzeGameModel object with the thread of the user      *)
(*            interface and the worker thread of an analysis              *)
(*   game     the game of the GameModel: main variation and current node   *)
(*   response the Response of the text protocol and what write() emitted   *)
(***************************************************************************)
VARIABLES st, pc, mv, ret, examined, result, player, search, twin,
          analyze, game, response
vars == <<st, pc, mv, ret, examined, result, player, search, twin, analyze, game, response>>

\* The value of result before evaluate_playout has returned.
NoResult ==
    [returned    |-> FALSE,
     result      |-> [c \in MaxColors |-> NoGameResult],
     game_result |-> [c \in MaxColors |-> NoGameResult]]

\* Variants searched.
InitVariants == {"duo"}

\* Colors to play at the root of a search.
RootToPlay == {0}

\* The children the tree holds for the current position: the list
\* init_moves_without_gamma generates for the color to play, or a pass if
\* that list is empty; none once all colors have passed.
Children(S) ==
    IF S.nu_passes = S.nu_colors THEN {}
    ELSE LET l == init_moves_without_gamma(S, S.bd.tp).moves[S.bd.tp]
         IN IF l = <<>> THEN {MovePass} ELSE Range(l)

\* Last-good-reply table entries handed to gen_playout_move: null, a pass,
\* an illegal move, or a legal move of the color to play.
LgrInputs(S) ==
    LET legal   == {m \in RegularMoves : is_legal_nonpass(S.bd, m)}
        illegal == RegularMoves \ legal
    IN {MoveNull, MovePass}
       \cup (IF S.nu_last_good_reply_moves < MaxLgrMoves THEN legal ELSE {})
       \cup (IF illegal = {} THEN {} ELSE {CHOOSE m \in illegal : TRUE})

\* The State object after construction; m_is_symmetry_broken has no
\* initializer.
NewState(v, broken, min_move) ==
    [bd                       |-> EmptyBoard(v, 0),
     snapshot                 |-> EmptyBoard(v, 0),
     min_move_all_considered  |-> min_move,
     nu_colors                |-> 0,
     nu_moves_initial         |-> 0,
     check_terminate_early    |-> FALSE,
     check_symmetric_draw     |-> FALSE,
     symmetry_min_nu_pieces   |-> 0,
     gamma_piece              |-> [piece \in Pieces |-> 0],
     nu_simulations           |-> 0,
     nu_playout_moves         |-> 0,
     nu_last_good_reply_moves |-> 0,
     moves                    |-> [c \in MaxColors |-> <<>>],
     marker                   |-> [c \in MaxColors |-> {}],
     cumulative_gamma         |-> <<>>,
     total_gamma              |-> GZero,
     new_moves                |-> [c \in MaxColors |-> <<>>],
     moves_added_at           |-> [c \in MaxColors |-> {}],
     is_move_list_initialized |-> [c \in MaxColors |-> FALSE],
     has_moves                |-> [c \in MaxColors |-> FALSE],
     is_piece_considered      |-> [c \in MaxColors |-> is_piece_considered_all],
     force_consider_all_pieces |-> FALSE,
     nu_passes                |-> 0,
     is_symmetry_broken       |-> broken,
     stat_score               |-> [c \in MaxColors |-> StatClear],
     stat_len                 |-> StatClear,
     random                   |-> 0,
     played                   |-> <<>>]

\* The Player object and the search driver while a State object is examined
\* on its own.
PlayerIdle ==
    [level |-> 1, fixed_simulations |-> 0, fixed_time |-> 0, use_book |-> TRUE,
     last  |-> [op |-> "none", arg |-> 0, fixed_simulations |-> 0, fixed_time |-> 0]]

SearchIdle == [phase |-> "none"]

TwinIdle == [phase |-> "none"]

\* The objects of the user interface and of the text protocol while the
\* search is examined on its own.
AnalyzeIdle == [phase |-> "none"]
GameIdle == [phase |-> "none"]
ResponseIdle == [phase |-> "none"]
FrontendIdle ==
    /\ analyze = AnalyzeIdle
    /\ game = GameIdle
    /\ response = ResponseIdle

InitWith(variants, min_move) ==
    /\ \E v \in variants, broken \in BOOLEAN : st = NewState(v, broken, min_move)
    /\ pc = "constructed"
    /\ mv = MoveNull
    /\ ret = "none"
    /\ examined = 0
    /\ result = NoResult
    /\ player = PlayerIdle
    /\ search = SearchIdle
    /\ twin = TwinIdle
    /\ FrontendIdle

InitIn(variants) == InitWith(variants, min_move_all_considered)

Init == InitIn(InitVariants)

StartSearch ==
    /\ pc = "constructed"
    /\ \E to_play \in RootToPlay, avoid_symmetric_draw \in BOOLEAN :
         st' = start_search(st, EmptyBoard(st.bd.variant, 0), to_play, avoid_symmetric_draw)
    /\ pc' = "idle"
    /\ UNCHANGED <<mv, ret, examined, result, player, search, twin, analyze, game, response>>

\* Simulations run per search: one fewer in the variants with four colors.
SimulationsOf(v) == IF NuColorsOf(v) = 2 THEN MaxSimulations ELSE MaxSimulations - 1

StartSimulation ==
    /\ pc = "idle"
    /\ st.nu_simulations < SimulationsOf(st.bd.variant)
    /\ st' = start_simulation(st)
    /\ pc' = "tree"
    /\ result' = NoResult
    /\ UNCHANGED <<mv, ret, examined, player, search, twin, analyze, game, response>>

\* The search descends to a child of the current node.  The tree itself is
\* not kept: any sequence of children may be the path of a simulation, as
\* in a tree grown by many earlier simulations.
PlayExpandedChild ==
    /\ pc \in {"tree", "expanded"}
    /\ \E m \in Children(st) : st' = play_expanded_child(st, m)
    /\ pc' = IF pc = "tree" THEN "tree" ELSE "leaf"
    /\ UNCHANGED <<mv, ret, examined, result, player, search, twin, analyze, game, response>>

\* The search expands the current node (State::gen_children).
GenChildren ==
    /\ pc = "tree"
    /\ st.nu_passes # st.nu_colors
    /\ st' = init_moves_without_gamma(st, st.bd.tp)
    /\ pc' = "expanded"
    /\ UNCHANGED <<mv, ret, examined, result, player, search, twin, analyze, game, response>>

BeginReturn(r) ==
    /\ st' = r.S
    /\ mv' = r.mv
    /\ pc' = CASE r.outcome \in {"all_passed", "symmetry"} -> "ended"
               [] r.outcome \in {"lgr1", "lgr2"} -> "gen"
               [] OTHER -> "loop"
    /\ ret' = IF r.outcome = "loop" THEN "none" ELSE r.outcome

GenPlayoutMoveBegin(lgr1, lgr2) ==
    /\ pc \in {"tree", "leaf", "playout"}
    /\ BeginReturn(gen_playout_move_begin(st, lgr1, lgr2))
    /\ examined' = 0
    /\ UNCHANGED <<result, player, search, twin, analyze, game, response>>

IterationReturn(r) ==
    /\ st' = r.S
    /\ pc' = CASE r.outcome = "break" -> "sample"
               [] r.outcome \in {"last_pass", "early"} -> "ended"
               [] OTHER -> "loop"
    /\ ret' = IF r.outcome \in {"last_pass", "early"} THEN r.outcome ELSE "none"

GenPlayoutMoveIteration ==
    /\ pc = "loop"
    /\ examined < MaxExamined
    /\ \E r \in {gen_playout_move_iteration(st)} : IterationReturn(r)
    /\ examined' = examined + 1
    /\ UNCHANGED <<mv, result, player, search, twin, analyze, game, response>>

\* The end of gen_playout_move for the position pos the search found; the
\* assertion pos != end stops the program when it fails.
SampleReturn(S, pos) ==
    IF pos < Len(S.moves[S.bd.tp])
    THEN /\ mv' = S.moves[S.bd.tp][pos + 1]
         /\ pc' = "gen"
         /\ ret' = "sampled"
    ELSE /\ pc' = "failed"
         /\ UNCHANGED <<mv, ret>>

GenPlayoutMoveSample(k) ==
    /\ pc = "sample"
    /\ SampleReturn(st, SamplePos(st, k))
    /\ st' = [st EXCEPT !.random = (@ + 1) % RandPeriod]
    /\ UNCHANGED <<examined, result, player, search, twin, analyze, game, response>>

\* gen_and_play_playout_move plays the move gen_playout_move produced; the
\* assertion of play_playout stops the program when the move is not legal.
PlayPlayout ==
    /\ pc = "gen"
    /\ IF is_legal_nonpass(st.bd, mv)
       THEN st' = play_playout(st, mv) /\ pc' = "playout"
       ELSE st' = st /\ pc' = "failed"
    /\ UNCHANGED <<mv, ret, examined, result, player, search, twin, analyze, game, response>>

EvaluateReturn(r) ==
    /\ result' = [returned |-> TRUE, result |-> r.result, game_result |-> r.game_result]
    /\ st' = [st EXCEPT !.stat_score = r.stat_score, !.stat_len = r.stat_len]

EvaluatePlayout(garbage, score_level, len_level) ==
    /\ pc = "ended"
    /\ EvaluateReturn(evaluate_playout(st, garbage, score_level, len_level))
    /\ pc' = "idle"
    /\ UNCHANGED <<mv, ret, examined, player, search, twin, analyze, game, response>>

Next ==
    \/ StartSearch
    \/ StartSimulation
    \/ PlayExpandedChild
    \/ GenChildren
    \/ \E lgr1 \in LgrInputs(st), lgr2 \in LgrInputs(st) : GenPlayoutMoveBegin(lgr1, lgr2)
    \/ GenPlayoutMoveIteration
    \/ \E k \in RandomDraws : GenPlayoutMoveSample(k)
    \/ PlayPlayout
    \/ \E garbage \in [MaxColors -> Indeterminate],
          score_level \in SigmoidValues, len_level \in SigmoidValues :
            EvaluatePlayout(garbage, score_level, len_level)

Spec == Init /\ [][Next]_vars

\* The boards after the first move of the game: the second player is to
\* play, or has passed after a first move with the largest piece.
FirstMoveBoards(v) ==
    {play_nonpass(EmptyBoard(v, 0), m) :
        m \in {n \in RegularMoves : is_legal_nonpass(EmptyBoard(v, 0), n)}}

SecondRoots(v) ==
    FirstMoveBoards(v)
    \cup {play_pass(b) : b \in {r \in FirstMoveBoards(v) :
                                   PieceOf(r.hist[1][2]) = MaxPieceSize}}

\* A search started later in the game, after the first move or after the
\* pass that answered it.
StartSearchSecond ==
    /\ pc = "constructed"
    /\ \E bd \in SecondRoots(st.bd.variant), avoid_symmetric_draw \in BOOLEAN :
         st' = start_search(st, bd, bd.tp, avoid_symmetric_draw)
    /\ pc' = "idle"
    /\ UNCHANGED <<mv, ret, examined, result, player, search, twin, analyze, game, response>>

NextSecond ==
    \/ StartSearchSecond
    \/ StartSimulation
    \/ PlayExpandedChild
    \/ GenChildren
    \/ \E lgr1 \in LgrInputs(st), lgr2 \in LgrInputs(st) : GenPlayoutMoveBegin(lgr1, lgr2)
    \/ GenPlayoutMoveIteration
    \/ \E k \in RandomDraws : GenPlayoutMoveSample(k)
    \/ PlayPlayout
    \/ \E garbage \in [MaxColors -> Indeterminate],
          score_level \in SigmoidValues, len_level \in SigmoidValues :
            EvaluatePlayout(garbage, score_level, len_level)

SpecSecond == Init /\ [][NextSecond]_vars

\* Searches started after the first move of the game and after the answer
\* to it: roots on either side of the limit of start_search for the early
\* end of playouts.
LateRoots(v) ==
    FirstMoveBoards(v)
    \cup UNION {{play_nonpass(b, m) : m \in {n \in RegularMoves : is_legal_nonpass(b, n)}} :
                   b \in FirstMoveBoards(v)}

StartSearchLate ==
    /\ pc = "constructed"
    /\ \E bd \in LateRoots(st.bd.variant), avoid_symmetric_draw \in BOOLEAN :
         st' = start_search(st, bd, bd.tp, avoid_symmetric_draw)
    /\ pc' = "idle"
    /\ UNCHANGED <<mv, ret, examined, result, player, search, twin, analyze, game, response>>

NextLate ==
    \/ StartSearchLate
    \/ StartSimulation
    \/ PlayExpandedChild
    \/ GenChildren
    \/ \E lgr1 \in LgrInputs(st), lgr2 \in LgrInputs(st) : GenPlayoutMoveBegin(lgr1, lgr2)
    \/ GenPlayoutMoveIteration
    \/ \E k \in RandomDraws : GenPlayoutMoveSample(k)
    \/ PlayPlayout
    \/ \E garbage \in [MaxColors -> Indeterminate],
          score_level \in SigmoidValues, len_level \in SigmoidValues :
            EvaluatePlayout(garbage, score_level, len_level)

SpecLate == Init /\ [][NextLate]_vars

(***************************************************************************)
(* update_moves on lists of any content.  On the board of the model a      *)
(* color has a single attach point before its second move, so no listed    *)
(* move outlives the move the color plays; on the boards of the game a     *)
(* list holds moves at many attach points.  The list of the color to play  *)
(* is therefore drawn: any list without duplicates of at most MaxListLen   *)
(* moves, marked in the marker, as the list at the color's last turn.      *)
(***************************************************************************)
MaxListLen == 3

\* The state after start_search and start_simulation on the empty board.
UpdateBase ==
    start_simulation(start_search(NewState("duo", TRUE, min_move_all_considered),
                                  EmptyBoard("duo", 0), 0, FALSE))

\* The states after a first move of color 0 with a small piece, played by
\* play_playout.
UpdateFirst ==
    {play_playout(UpdateBase, m) :
        m \in {n \in RegularMoves : /\ is_legal_nonpass(UpdateBase.bd, n)
                                     /\ PieceOf(n) < MaxPieceSize}}

\* The states after the answer of color 1 with its monomino.
UpdateSecond ==
    UNION {{play_playout(S, m) :
               m \in {n \in RegularMoves : /\ is_legal_nonpass(S.bd, n)
                                            /\ PieceOf(n) = 1}} : S \in UpdateFirst}

\* The lists without duplicates of at most MaxListLen moves.
MoveLists ==
    UNION {{l \in [1 .. k -> RegularMoves] : \A i, j \in 1 .. k : l[i] = l[j] => i = j} :
              k \in 0 .. MaxListLen}

\* State S with the list l for color c, as an earlier list operation of the
\* simulation left it.
WithList(S, c, l) ==
    [S EXCEPT !.moves[c] = l,
              !.marker[c] = Range(l),
              !.is_move_list_initialized[c] = TRUE,
              !.has_moves[c] = (l # <<>>)]

InitUpdate ==
    /\ \E S \in UpdateSecond, l \in MoveLists : st = WithList(S, S.bd.tp, l)
    /\ pc = "playout"
    /\ mv = MoveNull
    /\ ret = "none"
    /\ examined = 0
    /\ result = NoResult
    /\ player = PlayerIdle
    /\ search = SearchIdle
    /\ twin = TwinIdle
    /\ FrontendIdle

\* The next call of gen_playout_move, up to the move it samples.
NextUpdate ==
    \/ GenPlayoutMoveBegin(MoveNull, MoveNull)
    \/ GenPlayoutMoveIteration
    \/ \E k \in RandomDraws : GenPlayoutMoveSample(k)

SpecUpdate == InitUpdate /\ [][NextUpdate]_vars

\* A search in which only the large pieces are considered for the first
\* MinMoveRestricted moves.
MinMoveRestricted == 4
InitRestricted == InitWith({"duo", "classic"}, MinMoveRestricted)
SpecRestricted == InitRestricted /\ [][Next]_vars

\* The same search in the variants with four colors: two players with two
\* colors each, and four players.
InitClassic2 == InitIn({"classic_2"})
SpecClassic2 == InitClassic2 /\ [][Next]_vars

InitClassic == InitIn({"classic"})
SpecClassic == InitClassic /\ [][Next]_vars

\* Searches of the four-player game whose simulations are playouts from the
\* root, so that a second simulation finds the statistics of the first.
StartSimulationAgain ==
    /\ pc = "idle"
    /\ st.nu_simulations < MaxSimulations
    /\ st' = start_simulation(st)
    /\ pc' = "tree"
    /\ result' = NoResult
    /\ UNCHANGED <<mv, ret, examined, player, search, twin, analyze, game, response>>

NextPlayouts ==
    \/ StartSearch
    \/ StartSimulationAgain
    \/ GenPlayoutMoveBegin(MoveNull, MoveNull)
    \/ GenPlayoutMoveIteration
    \/ \E k \in RandomDraws : GenPlayoutMoveSample(k)
    \/ PlayPlayout
    \/ \E garbage \in [MaxColors -> Indeterminate],
          score_level \in SigmoidValues, len_level \in SigmoidValues :
            EvaluatePlayout(garbage, score_level, len_level)

SpecPlayouts == InitClassic /\ [][NextPlayouts]_vars

\* The same searches of the two-player and the four-player game, in which
\* the search goes on with a simulation it has started: it calls
\* gen_and_play_playout_move until that returns false, and a call runs to
\* its return.
InPlayout == pc \in {"tree", "playout", "loop", "sample", "gen"}
PlayoutStep == InPlayout /\ NextPlayouts

\* The guard of the playout actions, each of which has a next state
\* whenever its guard holds.
PlayoutEnabled ==
    \/ pc \in {"tree", "playout", "sample", "gen"}
    \/ pc = "loop" /\ examined < MaxExamined

\* An action with the enabling condition of PlayoutStep that no step of the
\* search satisfies.  As the first disjunct of the fairness condition it
\* lets ENABLED be decided from the guard, without generating move lists;
\* the steps the condition asks for remain those of PlayoutStep.
PlayoutGuard ==
    /\ PlayoutEnabled
    /\ pc' = "none"
    /\ UNCHANGED <<st, mv, ret, examined, result, player, search, twin, analyze, game, response>>

InitPlayoutsLive == InitIn({"duo", "classic"})
SpecPlayoutsLive ==
    InitPlayoutsLive /\ [][NextPlayouts]_vars /\ WF_vars(PlayoutGuard \/ PlayoutStep)

(***************************************************************************)
(* The Player object on its own: calls of its setters in any order.        *)
(***************************************************************************)
\* The State object of the player's search, not searched meanwhile.
StateIdle ==
    /\ st = NewState("duo", FALSE, min_move_all_considered)
    /\ pc = "constructed"
    /\ mv = MoveNull
    /\ ret = "none"
    /\ examined = 0
    /\ result = NoResult

state_vars == <<st, pc, mv, ret, examined, result>>

\* The Player after construction: no fixed budget, any level and book use.
InitPlayer ==
    /\ StateIdle
    /\ \E level \in Levels, use_book \in BOOLEAN :
         player = [PlayerIdle EXCEPT !.level = level, !.use_book = use_book]
    /\ search = SearchIdle
    /\ twin = TwinIdle
    /\ FrontendIdle

SetFixedSimulations(n) ==
    /\ player' = Called(player, set_fixed_simulations(player, n),
                        "set_fixed_simulations", n)
    /\ UNCHANGED <<state_vars, search, twin, analyze, game, response>>

SetFixedTime(seconds) ==
    /\ player' = Called(player, set_fixed_time(player, seconds),
                        "set_fixed_time", seconds)
    /\ UNCHANGED <<state_vars, search, twin, analyze, game, response>>

SetLevel(level) ==
    /\ player' = Called(player, set_level(player, level), "set_level", level)
    /\ UNCHANGED <<state_vars, search, twin, analyze, game, response>>

SetUseBook(enable) ==
    /\ player' = Called(player, set_use_book(player, enable), "set_use_book",
                        IF enable THEN 1 ELSE 0)
    /\ UNCHANGED <<state_vars, search, twin, analyze, game, response>>

NextPlayer ==
    \/ \E n \in FixedValues : SetFixedSimulations(n)
    \/ \E seconds \in FixedValues : SetFixedTime(seconds)
    \/ \E level \in Levels : SetLevel(level)
    \/ \E enable \in BOOLEAN : SetUseBook(enable)

SpecPlayer == InitPlayer /\ [][NextPlayer]_vars

(***************************************************************************)
(* The search driver with its workers on the shared tree.                  *)
(***************************************************************************)
\* Arena sizes: room for one expansion below the root, or for both.
MemorySizes == {NuNodes - 1, NuNodes}

InitSearch ==
    /\ StateIdle
    /\ player = PlayerIdle
    /\ \E max_count \in 1 .. MaxCount, min_simulations \in 0 .. MaxCount,
          memory \in MemorySizes, nu_root_children \in 1 .. 2 :
         search = NewSearch(max_count, min_simulations, memory, nu_root_children)
    /\ twin = TwinIdle
    /\ FrontendIdle

Running(w, at) ==
    /\ search.phase = "running"
    /\ search.worker[w].pc = at

WorkerCheck(w) ==
    /\ Running(w, "check")
    /\ search' = worker_check(search, w)
    /\ UNCHANGED <<state_vars, player, twin, analyze, game, response>>

WorkerLoad(w) ==
    /\ Running(w, "select")
    /\ search' = worker_load(search, w)
    /\ UNCHANGED <<state_vars, player, twin, analyze, game, response>>

WorkerDescend(w) ==
    /\ Running(w, "act")
    /\ search.worker[w].seen = "expanded"
    /\ \E c \in search.nodes[search.worker[w].node].children :
         search' = worker_descend(search, w, c)
    /\ UNCHANGED <<state_vars, player, twin, analyze, game, response>>

WorkerTryExpand(w) ==
    /\ Running(w, "act")
    /\ search.worker[w].seen = "unexpanded"
    /\ \E wait \in BOOLEAN : search' = worker_try_expand(search, w, wait)
    /\ UNCHANGED <<state_vars, player, twin, analyze, game, response>>

WorkerWait(w) ==
    /\ Running(w, "act")
    /\ search.worker[w].seen = "expanding"
    /\ \E wait \in BOOLEAN : search' = worker_wait(search, w, wait)
    /\ UNCHANGED <<state_vars, player, twin, analyze, game, response>>

WorkerExpand(w) ==
    /\ Running(w, "expand")
    /\ search' = worker_expand(search, w)
    /\ UNCHANGED <<state_vars, player, twin, analyze, game, response>>

WorkerBackup(w) ==
    /\ Running(w, "playout")
    /\ search' = worker_backup(search, w)
    /\ UNCHANGED <<state_vars, player, twin, analyze, game, response>>

PollTime ==
    /\ search.phase = "running"
    /\ search' = poll_time(search)
    /\ UNCHANGED <<state_vars, player, twin, analyze, game, response>>

Tick ==
    /\ search.phase = "running"
    /\ search.elapsed < MaxElapsed
    /\ search' = [search EXCEPT !.elapsed = @ + 1]
    /\ UNCHANGED <<state_vars, player, twin, analyze, game, response>>

SetAbort ==
    /\ search.phase = "running"
    /\ ~search.abort
    /\ search' = [search EXCEPT !.abort = TRUE]
    /\ UNCHANGED <<state_vars, player, twin, analyze, game, response>>

SearchReturn ==
    /\ search.phase = "running"
    /\ \A w \in Workers : search.worker[w].pc = "joined"
    /\ search' = search_return(search)
    /\ UNCHANGED <<state_vars, player, twin, analyze, game, response>>

NextSearch ==
    \/ \E w \in Workers : WorkerCheck(w)
    \/ \E w \in Workers : WorkerLoad(w)
    \/ \E w \in Workers : WorkerDescend(w)
    \/ \E w \in Workers : WorkerTryExpand(w)
    \/ \E w \in Workers : WorkerWait(w)
    \/ \E w \in Workers : WorkerExpand(w)
    \/ \E w \in Workers : WorkerBackup(w)
    \/ PollTime
    \/ Tick
    \/ SetAbort
    \/ SearchReturn

SpecSearch == InitSearch /\ [][NextSearch]_vars

(***************************************************************************)
(* Two runs of the engine on the same inputs: the same board and color to  *)
(* play, the same parameters, the same random numbers, and the same tree   *)
(* moves and last-good-reply entries as long as the runs agree.  What the  *)
(* program leaves indeterminate is drawn for each run on its own.          *)
(***************************************************************************)
TwinSimulations == 1

NewRun(broken) ==
    [st     |-> NewState("duo", broken, min_move_all_considered),
     pc     |-> "constructed",
     mv     |-> MoveNull,
     ret    |-> "none",
     result |-> NoResult]

\* Whether the search can make the call a in run R.
RunEnabled(R, a) ==
    CASE a.kind = "start_search"        -> R.pc = "constructed"
      [] a.kind = "start_simulation"    -> /\ R.pc = "idle"
                                           /\ R.st.nu_simulations < TwinSimulations
      [] a.kind = "play_expanded_child" -> /\ R.pc \in {"tree", "expanded"}
                                           /\ a.mv \in Children(R.st)
      [] a.kind = "gen_children"        -> /\ R.pc = "tree"
                                           /\ R.st.nu_passes # R.st.nu_colors
      [] a.kind = "gen_and_play"        -> R.pc \in {"tree", "leaf", "playout"}
      [] a.kind = "evaluate_playout"    -> R.pc = "ended"

RunAfterGen(R, g) ==
    [R EXCEPT !.st  = g.S,
              !.mv  = g.mv,
              !.ret = g.outcome,
              !.pc  = IF GenReturnsTrue(g) THEN "playout"
                      ELSE IF g.outcome = "failed" THEN "failed" ELSE "ended"]

RunAfterEvaluate(R, r) ==
    [R EXCEPT !.st.stat_score = r.stat_score,
              !.st.stat_len   = r.stat_len,
              !.result = [returned |-> TRUE, result |-> r.result,
                          game_result |-> r.game_result],
              !.pc = "idle"]

\* Run R after the call a; garbage is what this run finds in memory the
\* program reads before writing it.
RunStep(R, a, garbage) ==
    CASE a.kind = "start_search" ->
           [R EXCEPT !.st = start_search(R.st, a.bd, a.bd.tp, a.flag),
                     !.pc = "idle"]
      [] a.kind = "start_simulation" ->
           [R EXCEPT !.st = start_simulation(R.st), !.pc = "tree",
                     !.result = NoResult]
      [] a.kind = "play_expanded_child" ->
           [R EXCEPT !.st = play_expanded_child(R.st, a.mv),
                     !.pc = IF R.pc = "tree" THEN "tree" ELSE "leaf"]
      [] a.kind = "gen_children" ->
           [R EXCEPT !.st = init_moves_without_gamma(R.st, R.st.bd.tp),
                     !.pc = "expanded"]
      [] a.kind = "gen_and_play" ->
           RunAfterGen(R, gen_and_play_playout_move(R.st, a.lgr1, a.lgr2, a.k))
      [] a.kind = "evaluate_playout" ->
           RunAfterEvaluate(R, evaluate_playout(R.st, garbage, a.score_level,
                                                a.len_level))

Call(kind) ==
    [kind |-> kind, bd |-> EmptyBoard("duo", 0), flag |-> FALSE,
     mv |-> MoveNull, lgr1 |-> MoveNull,
     lgr2 |-> MoveNull, k |-> 0, score_level |-> 1, len_level |-> 1]

\* The last-good-reply entries of a search that started with an empty
\* table: none during the first simulation.
TwinLgrInputs(S) ==
    IF S.nu_simulations <= 1 THEN {MoveNull} ELSE LgrInputs(S)

InitTwin ==
    /\ StateIdle
    /\ player = PlayerIdle
    /\ search = SearchIdle
    /\ FrontendIdle
    /\ \E broken_a \in BOOLEAN, broken_b \in BOOLEAN :
         twin = [phase |-> "running", a |-> NewRun(broken_a), b |-> NewRun(broken_b)]

\* Both runs make the call a; a run in which the search has no such call
\* to make has left the common course.
TwinStep(a, garbage_a, garbage_b) ==
    /\ twin.phase = "running"
    /\ twin.b.pc # "diverged"
    /\ RunEnabled(twin.a, a)
    /\ \E ra \in {RunStep(twin.a, a, garbage_a)},
          rb \in {IF RunEnabled(twin.b, a)
                  THEN RunStep(twin.b, a, garbage_b)
                  ELSE [twin.b EXCEPT !.pc = "diverged"]} :
         twin' = [twin EXCEPT !.a = ra, !.b = rb]
    /\ UNCHANGED <<state_vars, player, search, analyze, game, response>>

NoGarbage == [c \in MaxColors |-> 0]

\* The roots of the two runs: the empty board and the boards after a first
\* move.
TwinRoots == {EmptyBoard("duo", 0)} \cup FirstMoveBoards("duo")

\* What evaluate_playout finds in the entries it does not write: the same
\* value in each.
TwinGarbage == {[c \in MaxColors |-> v] : v \in Indeterminate}

TwinStartSearch ==
    \E bd \in TwinRoots, flag \in BOOLEAN :
        TwinStep([Call("start_search") EXCEPT !.bd = bd, !.flag = flag],
                 NoGarbage, NoGarbage)

TwinStartSimulation ==
    TwinStep(Call("start_simulation"), NoGarbage, NoGarbage)

TwinPlayExpandedChild ==
    \E m \in Children(twin.a.st) :
        TwinStep([Call("play_expanded_child") EXCEPT !.mv = m], NoGarbage, NoGarbage)

TwinGenChildren ==
    TwinStep(Call("gen_children"), NoGarbage, NoGarbage)

TwinGenAndPlay ==
    \E lgr1 \in TwinLgrInputs(twin.a.st), lgr2 \in TwinLgrInputs(twin.a.st),
       k \in RandomDraws :
        TwinStep([Call("gen_and_play") EXCEPT !.lgr1 = lgr1, !.lgr2 = lgr2, !.k = k],
                 NoGarbage, NoGarbage)

TwinEvaluatePlayout ==
    \E garbage_a \in TwinGarbage, garbage_b \in TwinGarbage,
       score_level \in SigmoidValues, len_level \in SigmoidValues :
        TwinStep([Call("evaluate_playout") EXCEPT !.score_level = score_level,
                                                  !.len_level = len_level],
                 garbage_a, garbage_b)

NextTwin ==
    \/ TwinStartSearch
    \/ TwinStartSimulation
    \/ TwinPlayExpandedChild
    \/ TwinGenChildren
    \/ TwinGenAndPlay
    \/ TwinEvaluatePlayout

SpecTwin == InitTwin /\ [][NextTwin]_vars

(***************************************************************************)
(* The response of the text protocol (libboardgame_gtp::Response).         *)
(***************************************************************************)
\* Characters a response text is built from: a letter, a space, a newline.
MaxTextLen == 5
Newline == "\n"
Chars == {"a", " ", Newline}

\* The loop body of Response::write that copies every character as it is.
WriteChar_NoSpace(acc, c) ==
    [out |-> Append(acc.out, c), was_newline |-> (c = Newline)]

\* The loop body of Response::write for the character c.
WriteChar(acc, c) ==
    [out         |-> (IF c = Newline /\ acc.was_newline
                      THEN Append(acc.out, " ") ELSE acc.out) \o <<c>>,
     was_newline |-> (c = Newline)]

RECURSIVE WriteChars(_, _)
\* The loop of Response::write over the characters of the buffer.
WriteChars(acc, buffer) ==
    IF buffer = <<>> THEN acc
    ELSE WriteChars(WriteChar(acc, Head(buffer)), Tail(buffer))

\* What the loop has written, closed by the end of the last line and the
\* empty line.
WriteEnd(r) ==
    (IF ~r.was_newline THEN Append(r.out, Newline) ELSE r.out) \o <<Newline>>

\* Response::write: the characters sent to out for the text of the stream.
write(text) == WriteEnd(WriteChars([out |-> <<>>, was_newline |-> FALSE], text))

NewResponse == [phase |-> "open", text |-> <<>>, buffer |-> <<>>, out |-> <<>>]

InitResponse ==
    /\ StateIdle
    /\ player = PlayerIdle
    /\ search = SearchIdle
    /\ twin = TwinIdle
    /\ analyze = AnalyzeIdle
    /\ game = GameIdle
    /\ response = NewResponse

\* A command handler writes a character to the response.
ResponseAppend(c) ==
    /\ response.phase = "open"
    /\ Len(response.text) < MaxTextLen
    /\ response' = [response EXCEPT !.text = Append(@, c)]
    /\ UNCHANGED <<state_vars, player, search, twin, analyze, game>>

\* The engine sends the response.
ResponseWrite ==
    /\ response.phase = "open"
    /\ response' = [response EXCEPT !.phase = "written",
                                    !.buffer = response.text,
                                    !.out = write(response.text)]
    /\ UNCHANGED <<state_vars, player, search, twin, analyze, game>>

NextResponse ==
    \/ \E c \in Chars : ResponseAppend(c)
    \/ ResponseWrite

SpecResponse == InitResponse /\ [][NextResponse]_vars

(***************************************************************************)
(* The game tree seen by the analysis front-end.  The tree is its main     *)
(* variation (the first children from the root, which holds no move) and,  *)
(* while the current node is off the main variation, that one node.        *)
(***************************************************************************)
MaxGameLen == 3
NullMove == "null"
GameMoves == {"A", "B"}
GameNodeMoves == GameMoves \cup {NullMove}

NewGame ==
    [phase |-> "game", line |-> <<>>, current |-> 0, side |-> FALSE,
     side_move |-> NullMove]

\* libboardgame_sgf::is_main_variation for the current node.
is_main_variation(g) == ~g.side

RECURSIVE NonNullMoves(_)
\* The moves of a sequence of nodes, the nodes without a move left out.
NonNullMoves(nodes) ==
    IF nodes = <<>> THEN <<>>
    ELSE (IF Head(nodes) = NullMove THEN <<>> ELSE <<Head(nodes)>>)
             \o NonNullMoves(Tail(nodes))

\* The moves collected by the loop of markCurrentMove from the root along
\* the first children to the current node.
PathMoves(g) == NonNullMoves(SubSeq(g.line, 1, g.current))

\* The function f called on the GUI thread begins.
GuiCall(a, f) == [a EXCEPT !.emitted = <<>>, !.called = f]

\* Game::play: goes to the child that holds the move, or adds a child.
GamePlay(m) ==
    /\ game.phase = "game"
    /\ ~game.side
    /\ IF game.current = Len(game.line)
       THEN /\ Len(game.line) < MaxGameLen
            /\ game' = [game EXCEPT !.line = Append(@, m),
                                    !.current = @ + 1]
       ELSE /\ m # NullMove
            /\ IF game.line[game.current + 1] = m
               THEN game' = [game EXCEPT !.current = @ + 1]
               ELSE game' = [game EXCEPT !.side = TRUE, !.side_move = m]
    /\ analyze' = GuiCall(analyze, "game")
    /\ UNCHANGED <<state_vars, player, search, twin, response>>

\* Go to the parent of the current node; a variation that was left is
\* deleted.
GameBackward ==
    /\ game.phase = "game"
    /\ IF game.side
       THEN game' = [game EXCEPT !.side = FALSE, !.side_move = NullMove]
       ELSE /\ game.current > 0
            /\ game' = [game EXCEPT !.current = @ - 1]
    /\ analyze' = GuiCall(analyze, "game")
    /\ UNCHANGED <<state_vars, player, search, twin, response>>

\* Remove the last node of the main variation, the current node.
GameTruncate ==
    /\ game.phase = "game"
    /\ ~game.side
    /\ game.current > 0
    /\ game.current = Len(game.line)
    /\ game' = [game EXCEPT !.line = SubSeq(@, 1, Len(@) - 1),
                            !.current = @ - 1]
    /\ analyze' = GuiCall(analyze, "game")
    /\ UNCHANGED <<state_vars, player, search, twin, response>>

(***************************************************************************)
(* AnalyzeGameModel: the analysis of a game in a worker thread, started    *)
(* and cancelled from the GUI thread.                                      *)
(*   gui            "idle" in the event loop, "waiting" in waitForFinished *)
(*   cont           the function that called cancel() and goes on after it *)
(*   abort          the process-global abort flag                          *)
(*   workers        the workers launched so far; the watcher watches the   *)
(*                  last one                                               *)
(*   finishedEvent  the finished signal of the watcher waits in the queue  *)
(*   emitted        isRunningChanged signals of the last function run on   *)
(*                  the GUI thread, as pairs of old and new value          *)
(*   called         the function that ran last on the GUI thread           *)
(*   moves          the moves of m_analyzeGame                             *)
(***************************************************************************)
MaxStarts == 3
NoMark == 0 - 1

NewAnalyze ==
    [phase |-> "model", gui |-> "idle", cont |-> "none", isRunning |-> FALSE,
     abort |-> FALSE, nuSimulations |-> 0, workers |-> <<>>,
     finishedEvent |-> FALSE, emitted |-> <<>>, called |-> "none",
     elements |-> 0,
     moves |-> <<>>, markMoveNumber |-> NoMark]

\* A setter that emits the signal on every call.
setIsRunning_AlwaysEmits(a, isRunning) ==
    [a EXCEPT !.isRunning = isRunning,
              !.emitted = Append(@, <<a.isRunning, isRunning>>)]

setIsRunning(a, isRunning) ==
    IF a.isRunning = isRunning THEN a
    ELSE [a EXCEPT !.isRunning = isRunning,
                   !.emitted = Append(@, <<a.isRunning, isRunning>>)]

setMarkMoveNumber(a, markMoveNumber) ==
    IF a.markMoveNumber = markMoveNumber THEN a
    ELSE [a EXCEPT !.markMoveNumber = markMoveNumber]

updateElements(a) == [a EXCEPT !.elements = Len(a.moves)]

\* start() after cancel(): clear_abort, QtConcurrent::run, setFuture (which
\* drops the events of the future watched before), setIsRunning(true).
StartLaunch(a) ==
    setIsRunning([a EXCEPT !.abort = FALSE,
                           !.workers = Append(@, [at |-> "queued", next |-> 1]),
                           !.finishedEvent = FALSE],
                 TRUE)

\* clear() after cancel().
ClearElements(a) ==
    IF a.elements = 0 THEN a
    ELSE [a EXCEPT !.moves = <<>>, !.markMoveNumber = NoMark, !.elements = 0]

\* The caller of cancel() goes on.
AfterCancel(a, cont) ==
    CASE cont = "start" -> StartLaunch(a)
      [] cont = "clear" -> ClearElements(a)
      [] OTHER -> a

\* cancel() up to waitForFinished; all of it when no analysis is running.
cancel(a, cont) ==
    IF ~a.isRunning THEN AfterCancel(a, cont)
    ELSE [a EXCEPT !.abort = TRUE, !.gui = "waiting", !.cont = cont]

\* The worker watched by m_watcher has finished (or there is none).
WatchedFinished(a) ==
    a.workers = <<>> \/ a.workers[Len(a.workers)].at = "finished"

\* The moves the worker analyzes: those of the main variation.
MovesToAnalyze == NonNullMoves(game.line)

AnalyzeStart(nuSimulations) ==
    /\ analyze.phase = "model"
    /\ analyze.gui = "idle"
    /\ Len(analyze.workers) < MaxStarts
    /\ IF nuSimulations <= 0
       THEN analyze' = GuiCall(analyze, "start")
       ELSE analyze' = cancel([GuiCall(analyze, "start") EXCEPT
                                  !.nuSimulations = nuSimulations], "start")
    /\ UNCHANGED <<state_vars, player, search, twin, game, response>>

AnalyzeCancel ==
    /\ analyze.phase = "model"
    /\ analyze.gui = "idle"
    /\ analyze' = cancel(GuiCall(analyze, "cancel"), "cancel")
    /\ UNCHANGED <<state_vars, player, search, twin, game, response>>

AnalyzeClear ==
    /\ analyze.phase = "model"
    /\ analyze.gui = "idle"
    /\ analyze' = cancel(GuiCall(analyze, "clear"), "clear")
    /\ UNCHANGED <<state_vars, player, search, twin, game, response>>

\* waitForFinished returns in cancel(): setIsRunning(false), then the caller.
WaitForFinishedReturns ==
    /\ analyze.phase = "model"
    /\ analyze.gui = "waiting"
    /\ WatchedFinished(analyze)
    /\ analyze' = AfterCancel(setIsRunning([analyze EXCEPT !.gui = "idle",
                                                           !.cont = "none"],
                                           FALSE),
                              analyze.cont)
    /\ UNCHANGED <<state_vars, player, search, twin, game, response>>

\* The event loop delivers the finished signal of the watcher.
RunFinished ==
    /\ analyze.phase = "model"
    /\ analyze.gui = "idle"
    /\ analyze.finishedEvent
    /\ analyze' = updateElements(
                      setIsRunning([GuiCall(analyze, "finished") EXCEPT
                                       !.finishedEvent = FALSE], FALSE))
    /\ UNCHANGED <<state_vars, player, search, twin, game, response>>

\* The event loop runs updateElements for the worker i that waits in its
\* progress callback.
DeliverUpdateElements(i) ==
    /\ analyze.phase = "model"
    /\ analyze.gui = "idle"
    /\ analyze.workers[i].at = "blocked"
    /\ analyze' = updateElements([GuiCall(analyze, "updateElements") EXCEPT
                                     !.workers[i].at = "search"])
    /\ UNCHANGED <<state_vars, player, search, twin, game, response>>

\* The worker i has run to its end: the watcher of its future posts
\* finished.
WorkerEnd(a, i) ==
    [a EXCEPT !.workers[i].at = "finished",
              !.finishedEvent = (@ \/ i = Len(a.workers))]

\* The worker i goes on to the next move of the game, if any.
WorkerNextMove(a, i) ==
    IF a.workers[i].next > Len(MovesToAnalyze) THEN WorkerEnd(a, i)
    ELSE [a EXCEPT !.workers[i].at = "callback"]

\* The thread of the worker i begins asyncRun.
WorkerBegin(i) ==
    /\ analyze.workers[i].at = "queued"
    /\ analyze' = WorkerNextMove([analyze EXCEPT !.moves = <<>>], i)
    /\ UNCHANGED <<state_vars, player, search, twin, game, response>>

\* The progress callback: a blocking call of updateElements on the GUI
\* thread.
WorkerCallback(i) ==
    /\ analyze.workers[i].at = "callback"
    /\ analyze' = [analyze EXCEPT !.workers[i].at = "blocked"]
    /\ UNCHANGED <<state_vars, player, search, twin, game, response>>

\* The search of one move ends; the analysis ends when the abort flag is
\* set.
WorkerSearch(i) ==
    /\ analyze.workers[i].at = "search"
    /\ IF analyze.abort
       THEN analyze' = WorkerEnd(analyze, i)
       ELSE analyze' =
                WorkerNextMove(
                    [analyze EXCEPT
                        !.moves = Append(@, MovesToAnalyze[analyze.workers[i].next]),
                        !.workers[i].next = @ + 1], i)
    /\ UNCHANGED <<state_vars, player, search, twin, game, response>>

WorkerStep ==
    \E i \in DOMAIN analyze.workers :
        WorkerBegin(i) \/ WorkerCallback(i) \/ WorkerSearch(i)

AnalyzedGames ==
    {[NewGame EXCEPT !.line = l, !.current = Len(l)] :
        l \in {<<"A">>, <<"A", "B">>}}

InitAnalyze ==
    /\ StateIdle
    /\ player = PlayerIdle
    /\ search = SearchIdle
    /\ twin = TwinIdle
    /\ response = ResponseIdle
    /\ game \in AnalyzedGames
    /\ analyze = NewAnalyze

NextAnalyze ==
    \/ \E n \in 0 .. 1 : AnalyzeStart(n)
    \/ AnalyzeCancel
    \/ AnalyzeClear
    \/ WaitForFinishedReturns
    \/ RunFinished
    \/ \E i \in DOMAIN analyze.workers : DeliverUpdateElements(i)
    \/ \E i \in DOMAIN analyze.workers : WorkerBegin(i)
    \/ \E i \in DOMAIN analyze.workers : WorkerCallback(i)
    \/ \E i \in DOMAIN analyze.workers : WorkerSearch(i)

SpecAnalyze == InitAnalyze /\ [][NextAnalyze]_vars

\* The threads run on: the worker thread, and the GUI thread where it
\* waits for the worker or has an event to deliver.
SpecAnalyzeLive ==
    /\ InitAnalyze
    /\ [][NextAnalyze]_vars
    /\ WF_vars(WorkerStep)
    /\ WF_vars(WaitForFinishedReturns)
    /\ WF_vars(\E i \in DOMAIN analyze.workers : DeliverUpdateElements(i))
    /\ WF_vars(RunFinished)

(***************************************************************************)
(* AnalyzeGameModel: the mark of the current position.                     *)
(***************************************************************************)
markCurrentMove(a, g) ==
    IF is_main_variation(g)
    THEN LET moves == PathMoves(g)
         IN IF Len(moves) <= Len(a.moves)
            THEN IF \E i \in 1 .. Len(moves) : moves[i] # a.moves[i]
                 THEN a
                 ELSE setMarkMoveNumber(a, Len(moves))
            ELSE setMarkMoveNumber(a, NoMark)
    ELSE setMarkMoveNumber(a, NoMark)

MarkCurrentMove ==
    /\ analyze.phase = "model"
    /\ analyze.gui = "idle"
    /\ game.phase = "game"
    /\ analyze' = markCurrentMove(GuiCall(analyze, "markCurrentMove"), game)
    /\ UNCHANGED <<state_vars, player, search, twin, game, response>>

\* The first moveNumber moves of the analysis are those of the first
\* moveNumber nodes of the main variation.
MainLineHas(a, g, moveNumber) ==
    \A i \in 1 .. moveNumber : i <= Len(g.line) /\ g.line[i] = a.moves[i]

\* The last of the moveNumber moves is that of the node off the main
\* variation.
SideNodeHas(a, g, moveNumber) ==
    /\ moveNumber >= 1
    /\ MainLineHas(a, g, moveNumber - 1)
    /\ g.side /\ g.current = moveNumber - 1
    /\ g.side_move = a.moves[moveNumber]

GotoMove(moveNumber) ==
    /\ analyze.phase = "model"
    /\ analyze.gui = "idle"
    /\ game.phase = "game"
    /\ IF moveNumber >= Len(analyze.moves)
       THEN analyze' = GuiCall(analyze, "gotoMove") /\ game' = game
       ELSE IF MainLineHas(analyze, game, moveNumber)
       THEN /\ game' = [game EXCEPT !.current = moveNumber, !.side = FALSE,
                                    !.side_move = NullMove]
            /\ analyze' = setMarkMoveNumber(GuiCall(analyze, "gotoMove"), moveNumber)
       ELSE IF SideNodeHas(analyze, game, moveNumber)
       THEN /\ game' = game
            /\ analyze' = setMarkMoveNumber(GuiCall(analyze, "gotoMove"), moveNumber)
       ELSE /\ game' = game
            /\ analyze' = setMarkMoveNumber(GuiCall(analyze, "gotoMove"), NoMark)
    /\ UNCHANGED <<state_vars, player, search, twin, response>>

RECURSIVE AnalyzedMoveLists(_)
\* The sequences of at most n moves.
AnalyzedMoveLists(n) ==
    IF n = 0 THEN {<<>>}
    ELSE LET shorter == AnalyzedMoveLists(n - 1)
         IN shorter \cup {Append(l, m) : l \in shorter, m \in GameMoves}

\* loadAutoSave: the analysis stored in the settings becomes the analysis.
LoadAutoSave(moves) ==
    /\ analyze.phase = "model"
    /\ analyze.gui = "idle"
    /\ ~analyze.isRunning
    /\ analyze' = updateElements([GuiCall(analyze, "loadAutoSave") EXCEPT !.moves = moves])
    /\ UNCHANGED <<state_vars, player, search, twin, game, response>>

InitMark ==
    /\ StateIdle
    /\ player = PlayerIdle
    /\ search = SearchIdle
    /\ twin = TwinIdle
    /\ response = ResponseIdle
    /\ game = NewGame
    /\ analyze = NewAnalyze

NextMark ==
    \/ \E m \in GameNodeMoves : GamePlay(m)
    \/ GameBackward
    \/ GameTruncate
    \/ \E moves \in AnalyzedMoveLists(MaxGameLen) : LoadAutoSave(moves)
    \/ AnalyzeClear
    \/ MarkCurrentMove
    \/ \E n \in 0 .. MaxGameLen : GotoMove(n)

SpecMark == InitMark /\ [][NextMark]_vars


(***************************************************************************)
(* Properties of the move lists.                                           *)
(***************************************************************************)
\* Every move of moves[c] has all its points non-forbidden for c on the
\* current board and uses a piece c still has left.
ListedMovesPlayable(S, c) ==
    \A i \in 1 .. Len(S.moves[c]) :
        /\ \A p \in MovePointSet(S.moves[c][i]) : ~is_forbidden(S.bd, p, c)
        /\ is_piece_left(S.bd, c, PieceOf(S.moves[c][i]))

\* Between two calls of a simulation.
InSimulation == pc \in {"tree", "expanded", "leaf", "gen", "playout", "ended"}

\* C1 as stated: at every point between two calls of a simulation, for
\* every color, every listed move is non-forbidden on the current board and
\* uses a piece the color still has left.
C1_ListsPlayableEverywhere ==
    InSimulation => \A c \in Colors(st.bd) : ListedMovesPlayable(st, c)

\* C1 amended: right after the list of the color to play was initialized or
\* updated (gen_children expanded the node, or gen_playout_move is about to
\* sample), every move listed for the color to play is non-forbidden on the
\* current board and uses a piece that color still has left.
C1_ListPlayableAfterListOp ==
    pc \in {"expanded", "sample"} => ListedMovesPlayable(st, st.bd.tp)

\* The list of the color to play was updated in a playout after that color
\* had played a piece, and is about to be sampled.
C1_Witness ==
    /\ pc = "sample"
    /\ ~is_first_piece(st.bd, st.bd.tp)
    /\ st.moves[st.bd.tp] # <<>>
    /\ ~ListedMovesPlayable(st, get_next(st.bd, st.bd.tp))

\* C2: for every color, in every state (also across simulations, where the
\* lists are not cleared), moves[c] holds no move twice and marker[c] is set
\* for exactly the moves of moves[c].
C2_MarkerIsList ==
    \A c \in MaxColors :
        /\ Cardinality(Range(st.moves[c])) = Len(st.moves[c])
        /\ st.marker[c] = Range(st.moves[c])

\* A second simulation re-initialized, over the list the first simulation
\* left, a list that is not empty.
C2_Witness ==
    /\ st.nu_simulations = 2
    /\ pc = "sample"
    /\ Len(st.moves[st.bd.tp]) >= 2
    /\ st.marker[st.bd.tp] = Range(st.moves[st.bd.tp])

\* The gamma the list operation that just ran gave to a listed move: the
\* gamma of the piece for a starting move, the gamma check_move computes
\* otherwise.
ListedGamma(S, c, m) ==
    IF is_first_piece(S.bd, c) THEN GUnit(S.gamma_piece[PieceOf(m)], 0)
    ELSE check_move(S, c, m, LocalValueInit(S.bd)).gamma

RECURSIVE GammaPrefixSum(_, _, _)
GammaPrefixSum(S, c, i) ==
    IF i = 0 THEN GZero
    ELSE GAdd(GammaPrefixSum(S, c, i - 1), ListedGamma(S, c, S.moves[c][i]))

\* C3: when gen_playout_move is about to sample for the color to play c,
\* cumulative_gamma[i] is the sum of the gammas of moves[c][0..i] for every
\* index of the list, the sequence does not decrease, and its last entry of
\* the list is total_gamma.
C3_CumulativeGamma ==
    pc = "sample" =>
        LET c == st.bd.tp
            n == Len(st.moves[c])
        IN /\ n > 0
           /\ n <= Len(st.cumulative_gamma)
           /\ \A i \in 1 .. n :
                GNorm(st.cumulative_gamma[i]) = GNorm(GammaPrefixSum(st, c, i))
           /\ \A i \in 1 .. (n - 1) :
                GLeq(st.cumulative_gamma[i], st.cumulative_gamma[i + 1])
           /\ st.cumulative_gamma[n] = st.total_gamma

\* Sampling from a list of several moves whose gammas differ, while the
\* array still holds entries of a longer list built before.
C3_Witness ==
    /\ pc = "sample"
    /\ Len(st.moves[st.bd.tp]) >= 2
    /\ Len(st.moves[st.bd.tp]) < Len(st.cumulative_gamma)
    /\ \E i, j \in 1 .. Len(st.moves[st.bd.tp]) :
          ListedGamma(st, st.bd.tp, st.moves[st.bd.tp][i])
              # ListedGamma(st, st.bd.tp, st.moves[st.bd.tp][j])

(***************************************************************************)
(* Properties of the symmetry flag.                                        *)
(***************************************************************************)
\* C4: within one simulation no call sets a broken symmetry flag back to
\* unbroken.
C4_SymmetryMonotonic ==
    [][(InSimulation \/ pc \in {"loop", "sample"}) /\ st.is_symmetry_broken
          => st'.is_symmetry_broken]_vars

\* A move was played in a playout while the flag was broken.
C4_Witness ==
    /\ pc = "playout"
    /\ st.is_symmetry_broken
    /\ get_nu_onboard_pieces(st.bd) >= 2

\* C5: start_simulation leaves the symmetry flag unbroken: at the start of
\* every simulation, before a move is played, the flag is false.
C5_StartSimulationResets ==
    [][pc = "idle" /\ pc' = "tree" /\ st.nu_simulations >= 1
          => ~st'.is_symmetry_broken]_vars

C7_EveryPassRecorded ==
    [][pc = "loop" /\ st'.moves[st.bd.tp] = <<>>
          => st'.nu_passes = st.nu_passes + 1 /\ st'.is_symmetry_broken]_vars

\* The early-termination rule of gen_playout_move applies to the color to
\* play of S.
TerminatesEarly(S) ==
    /\ S.check_terminate_early
    /\ get_score(S.bd, S.bd.tp) < 0
    /\ (get_second_color(S.bd, S.bd.tp) # S.bd.tp
          => ~S.has_moves[get_second_color(S.bd, S.bd.tp)])

\* C7 amended: whenever gen_playout_move finds the list of the color to
\* play empty, it records a pass (m_nu_passes incremented, symmetry flag
\* broken, next color to play), unless the pass would be the nu_colors-th
\* in succession or the early-termination rule applies: then it returns
\* false and m_nu_passes, the symmetry flag and the color to play stay as
\* they are.
C7_PassRecordedUnlessLast ==
    [][pc = "loop" /\ st'.moves[st.bd.tp] = <<>>
          => IF st.nu_passes + 1 = st.nu_colors \/ TerminatesEarly(st)
             THEN /\ pc' = "ended"
                  /\ ret' \in {"last_pass", "early"}
                  /\ st'.nu_passes = st.nu_passes
                  /\ st'.is_symmetry_broken = st.is_symmetry_broken
                  /\ st'.bd.tp = st.bd.tp
             ELSE /\ pc' = "loop"
                  /\ st'.nu_passes = st.nu_passes + 1
                  /\ st'.is_symmetry_broken
                  /\ st'.bd.tp = get_next(st.bd, st.bd.tp)]_vars

\* A playout ended on the pass of the last color: the pass of the color
\* before it was recorded, the last one was not.
C7_Witness ==
    /\ pc = "ended"
    /\ ret = "last_pass"
    /\ examined = 2
    /\ st.nu_passes = 1
    /\ st.is_symmetry_broken

\* C8: a call of gen_playout_move with m_nu_passes = nu_colors returns
\* false, produces no move and changes nothing of the state (board, lists,
\* counters); and no call examines more than nu_colors colors.
C8_AllPassedReturnsFalse ==
    /\ [](pc # "constructed" => examined <= st.nu_colors)
    /\ [][(pc \in {"tree", "leaf", "playout"} /\ st.nu_passes = st.nu_colors)
            => /\ pc' = "ended"
               /\ ret' = "all_passed"
               /\ mv' = MoveNull
               /\ st' = st]_vars

\* gen_playout_move returned because all colors had passed.
C8_Witness ==
    /\ pc = "ended"
    /\ ret = "all_passed"
    /\ st.nu_passes = st.nu_colors

\* A reply the last-good-reply checks of gen_playout_move accept.
UsableReply(S, reply) == IsRegular(reply) /\ is_legal_nonpass(S.bd, reply)

\* C9: for every pair of replies handed to a call of gen_playout_move that
\* the all-passed and symmetry checks do not end: a usable lgr2 is returned
\* with only the two counters incremented (no list, no random number);
\* lgr1 is returned only when lgr2 is not usable; the lists are looked at
\* only when neither is usable.
C9_Lgr2First ==
    pc \in {"tree", "leaf", "playout"} =>
        \A lgr1 \in LgrInputs(st), lgr2 \in LgrInputs(st) :
            LET r    == gen_playout_move_begin(st, lgr1, lgr2)
                hit  == [st EXCEPT !.nu_playout_moves = @ + 1,
                                   !.nu_last_good_reply_moves = @ + 1]
            IN r.outcome \notin {"all_passed", "symmetry"} =>
                 /\ UsableReply(st, lgr2)
                       => r.outcome = "lgr2" /\ r.mv = lgr2 /\ r.S = hit
                 /\ r.outcome = "lgr1"
                       => ~UsableReply(st, lgr2) /\ r.mv = lgr1 /\ r.S = hit
                 /\ r.outcome = "loop"
                       => ~UsableReply(st, lgr2) /\ ~UsableReply(st, lgr1)

\* gen_playout_move returned a reply where two different replies were
\* usable.
C9_Witness ==
    /\ pc = "gen"
    /\ ret = "lgr2"
    /\ st.nu_last_good_reply_moves = 1
    /\ Cardinality({m \in RegularMoves : is_legal_nonpass(st.bd, m)}) >= 2

\* cumulative_gamma[i] >= total_gamma * k / RandDenom.
ReachesDraw(S, i, k) ==
    GLeq(GScale(S.total_gamma, k), GScale(S.cumulative_gamma[i + 1], RandDenom))

\* C10: when gen_playout_move samples, for every draw the position found
\* is the smallest index whose cumulative gamma is at least
\* total_gamma * u, and it is an index of the list; the move returned is a
\* move of the list of the color to play and no assertion fails.
C10_SampledIndex ==
    /\ pc # "failed"
    /\ pc = "sample" =>
          \A k \in RandomDraws :
              /\ SamplePos(st, k) < Len(st.moves[st.bd.tp])
              /\ ReachesDraw(st, SamplePos(st, k), k)
              /\ \A j \in 0 .. (SamplePos(st, k) - 1) : ~ReachesDraw(st, j, k)
    /\ pc = "gen" /\ ret = "sampled" => mv \in Range(st.moves[st.bd.tp])

\* gen_playout_move sampled a move that is not the first of a list of at
\* least four moves.
C10_Witness ==
    /\ pc = "gen"
    /\ ret = "sampled"
    /\ Len(st.moves[st.bd.tp]) >= 4
    /\ mv # st.moves[st.bd.tp][1]


(***************************************************************************)
(* Properties of evaluate_playout.                                         *)
(***************************************************************************)
\* evaluate_playout has just returned: the state still is the one it
\* evaluated, apart from the statistics.
Evaluated == pc = "idle" /\ result.returned

AllHalf(array) == \A i \in MaxColors : array[i] = ResultHalf

\* C11 as stated: when gen_playout_move returned false because the symmetry
\* was unbroken with at least symmetry_min_nu_pieces pieces on board, the
\* following evaluate_playout returns 0.5 in all four entries; and the array
\* of four times 0.5 is returned only when the flag is unbroken and that many
\* pieces are on board.
C11_DrawIffSymmetric ==
    Evaluated =>
        /\ (ret = "symmetry" => AllHalf(result.result))
        /\ (AllHalf(result.result) => evaluate_playout_is_symmetric_draw(st))

\* The condition of the symmetric draw on a state.
SymmetryUnbroken(S) ==
    ~S.is_symmetry_broken /\ get_nu_onboard_pieces(S.bd) >= S.symmetry_min_nu_pieces

\* C11, amended: evaluate_playout returns 0.5 in all four entries whenever
\* the flag is unbroken with at least symmetry_min_nu_pieces pieces on board,
\* in particular after gen_playout_move returned false for that reason; any
\* other array of four times 0.5 comes from a tied score without bonus.
C11_DrawWhenSymmetricOrTie ==
    Evaluated =>
        /\ (ret = "symmetry" => SymmetryUnbroken(st))
        /\ (SymmetryUnbroken(st) => AllHalf(result.result))
        /\ (AllHalf(result.result) /\ ~SymmetryUnbroken(st) =>
                /\ get_score(st.bd, 0) = 0
                /\ result.game_result[0] = ResultHalf)

C11_Witness == Evaluated /\ ret = "symmetry" /\ AllHalf(result.result)

C13_TwoPlayerResult ==
    Evaluated /\ get_nu_players(st.bd) = 2 /\ ~SymmetryUnbroken(st) =>
        /\ result.game_result[0] =
               (IF get_score(st.bd, 0) > 0 THEN ResultOne
                ELSE IF get_score(st.bd, 0) < 0 THEN 0 ELSE ResultHalf)
        /\ result.result[1] = ResultOne - result.result[0]
        /\ result.result[0] + result.result[1] = ResultOne

\* A bonus moved the result of player 0 away from its game result.
C13_Witness ==
    /\ Evaluated /\ get_nu_players(st.bd) = 2 /\ ~SymmetryUnbroken(st)
    /\ result.result[0] # result.game_result[0]
    /\ result.result[0] + result.result[1] = ResultOne

\* The colors whose points are below, and equal to, those of color c.
PointsBelow(S, c) ==
    {d \in Colors(S.bd) : get_points_with_bonus(S.bd, d) < get_points_with_bonus(S.bd, c)}

PointsEqual(S, c) ==
    {d \in Colors(S.bd) : get_points_with_bonus(S.bd, d) = get_points_with_bonus(S.bd, c)}

\* C14: with more than two players, the game result of player c is the
\* mean of j / (nu_colors - 1) over the ranks j its points take in the
\* ascending order of the points: a sole highest score gets 1, a sole
\* lowest 0, equal points get equal results, and more points never get a
\* lower result.
C14_RankedResult ==
    Evaluated /\ get_nu_players(st.bd) > 2 /\ ~SymmetryUnbroken(st) =>
        \A c \in Colors(st.bd) :
            LET below == Cardinality(PointsBelow(st, c))
                equal == Cardinality(PointsEqual(st, c))
            IN /\ result.game_result[c] * 2 * (st.nu_colors - 1)
                      = ResultOne * (2 * below + equal - 1)
               /\ (equal = 1 /\ below = st.nu_colors - 1
                      => result.game_result[c] = ResultOne)
               /\ (equal = 1 /\ below = 0 => result.game_result[c] = 0)
               /\ \A d \in Colors(st.bd) :
                     /\ (d \in PointsEqual(st, c)
                           => result.game_result[d] = result.game_result[c])
                     /\ (d \in PointsBelow(st, c)
                           => result.game_result[d] < result.game_result[c])

\* Two players share a rank below a sole winner.
C14_Witness ==
    /\ Evaluated /\ get_nu_players(st.bd) > 2 /\ ~SymmetryUnbroken(st)
    /\ \E c, d, e \in Colors(st.bd) :
          /\ c # d /\ d \in PointsEqual(st, c)
          /\ result.game_result[c] = result.game_result[d]
          /\ result.game_result[c] \notin {0, ResultOne}
          /\ result.game_result[e] = ResultOne


(***************************************************************************)
(* Properties of the symmetry detector.                                    *)
(***************************************************************************)
\* A step that plays a non-pass move of color c on the internal board
\* while the symmetry flag is unbroken.
PlaysUnbroken(c) ==
    /\ ~st.is_symmetry_broken
    /\ pc \in {"tree", "expanded", "gen"}
    /\ Len(st'.bd.hist) = Len(st.bd.hist) + 1
    /\ st'.bd.hist[Len(st'.bd.hist)][1] = c
    /\ st'.bd.hist[Len(st'.bd.hist)][2] # MovePass

\* The mirror points of the move played last.
LastMirrorPoints(b) ==
    {symmetric_points(p) : p \in MovePointSet(b.hist[Len(b.hist)][2])}

\* The colors of the other player.
Opponents(b, c) == {d \in Colors(b) : d % 2 # c % 2}

\* C15 as stated: after a non-pass move of the first player (color 0 or 2)
\* with the flag unbroken, the flag stays unbroken only if the mirror of
\* every placement point is owned by the mover's opponent, and is broken
\* otherwise.
C15_FirstPlayerNeedsOpponent ==
    [][\A c \in {0, 2} : PlaysUnbroken(c) =>
          (~st'.is_symmetry_broken <=>
              \A q \in LastMirrorPoints(st'.bd) : st'.bd.ps[q] \in Opponents(st'.bd, c))]_vars

\* C15, amended: after a non-pass move of the first player with the flag
\* unbroken, the flag stays unbroken only if the mirror of every placement
\* point is empty, and is broken otherwise.
C15_FirstPlayerNeedsEmpty ==
    [][\A c \in {0, 2} : PlaysUnbroken(c) =>
          (~st'.is_symmetry_broken <=>
              \A q \in LastMirrorPoints(st'.bd) : st'.bd.ps[q] = Empty)]_vars

\* The first player made its second move and the flag is still unbroken.
C15_Witness ==
    /\ pc \in {"tree", "expanded", "leaf", "playout"}
    /\ Len(st.bd.hist) >= 3
    /\ st.bd.hist[Len(st.bd.hist)][1] = 0
    /\ st.bd.hist[Len(st.bd.hist)][2] # MovePass
    /\ ~st.is_symmetry_broken
    /\ \A q \in LastMirrorPoints(st.bd) : st.bd.ps[q] = Empty

\* C16 as stated: after a non-pass move of the second player (color 1 or 3)
\* with the flag unbroken, the flag stays unbroken only if the mirror of
\* every placement point is empty, and is broken otherwise.
C16_SecondPlayerNeedsEmpty ==
    [][\A c \in {1, 3} : PlaysUnbroken(c) =>
          (~st'.is_symmetry_broken <=>
              \A q \in LastMirrorPoints(st'.bd) : st'.bd.ps[q] = Empty)]_vars

\* C16, amended: after a non-pass move of the second player with the flag
\* unbroken, the flag stays unbroken only if the mirror of every placement
\* point is owned by the mover's opponent, the first player, and is broken
\* otherwise.
C16_SecondPlayerNeedsOpponent ==
    [][\A c \in {1, 3} : PlaysUnbroken(c) =>
          (~st'.is_symmetry_broken <=>
              \A q \in LastMirrorPoints(st'.bd) : st'.bd.ps[q] \in Opponents(st'.bd, c))]_vars

\* The second player mirrored the first player's move and the flag is
\* still unbroken.
C16_Witness ==
    /\ pc \in {"tree", "expanded", "leaf", "playout"}
    /\ st.bd.hist # <<>>
    /\ st.bd.hist[Len(st.bd.hist)][1] = 1
    /\ st.bd.hist[Len(st.bd.hist)][2] # MovePass
    /\ ~st.is_symmetry_broken
    /\ \A q \in LastMirrorPoints(st.bd) : st.bd.ps[q] = 0

\* The search was started with the symmetry heuristic disabled: in a
\* variant without symmetry detection, or for the second player at the root
\* with avoid_symmetric_draw set (start_search then computes
\* m_check_symmetric_draw as false although the root is symmetric).
HeuristicDisabled(S) ==
    \/ S.snapshot.variant # "duo"
    \/ /\ S.snapshot.tp \in {1, 3}
       /\ ~S.check_symmetric_draw
       /\ ~check_symmetry_broken(S.snapshot)

\* C17: in a search with the symmetry heuristic disabled no playout is
\* ended by the symmetry check of gen_playout_move and evaluate_playout
\* never returns the symmetric draw.
C17_DisabledHeuristicNeverFires ==
    pc # "constructed" /\ HeuristicDisabled(st) =>
        /\ ret # "symmetry"
        /\ ~(Evaluated /\ SymmetryUnbroken(st))


(***************************************************************************)
(* Properties of the piece consideration.                                  *)
(***************************************************************************)
\* The legal moves of color c (to play) with the pieces the table for the
\* number of on-board pieces lists.
RestrictedMoves(S, c) ==
    {m \in RegularMoves :
        /\ is_legal_nonpass(S.bd, m)
        /\ PieceConsidered(is_piece_considered(get_nu_onboard_pieces(S.bd)), PieceOf(m))}

\* The legal moves of the color to play.
LegalMoves(S) == {m \in RegularMoves : is_legal_nonpass(S.bd, m)}

\* The list of the color to play was just generated while fewer than
\* min_move_all_considered pieces are on board.
GeneratedEarly ==
    /\ pc \in {"expanded", "sample"}
    /\ get_nu_onboard_pieces(st.bd) < st.min_move_all_considered

\* C18 as stated: while fewer than min_move_all_considered pieces are on
\* board, the list generated for a color holds only moves of the pieces its
\* table lists, unless that yields an empty list: then
\* force_consider_all_pieces is set and the list was generated once more
\* with all pieces.
C18_RestrictedUnlessEmpty ==
    GeneratedEarly =>
        IF RestrictedMoves(st, st.bd.tp) # {}
        THEN Range(st.moves[st.bd.tp]) = RestrictedMoves(st, st.bd.tp)
        ELSE /\ st.force_consider_all_pieces
             /\ Range(st.moves[st.bd.tp]) = LegalMoves(st)

\* The table a list operation for color c starts with: the one
\* get_pieces_considered returns when the list is initialized, the one of
\* the color's last list operation when the list is updated.
TableInForce(S, c, init) ==
    IF ~init THEN S.is_piece_considered[c]
    ELSE IF get_nu_onboard_pieces(S.bd) >= S.min_move_all_considered
    THEN is_piece_considered_all
    ELSE is_piece_considered(get_nu_onboard_pieces(S.bd))

\* The color to play has no legal move with a piece of that table.
NoMoveInForce(S, init) ==
    \A m \in LegalMoves(S) :
        ~PieceConsidered(TableInForce(S, S.bd.tp, init), PieceOf(m))

\* C18, amended: while fewer than min_move_all_considered pieces are on
\* board and force_consider_all_pieces is not set, the generated list holds
\* exactly the moves of the pieces the table lists; the flag is set only
\* when the list of the color to play is empty with the table in force,
\* and from then until the next start_simulation every list, of any color,
\* is generated with all pieces.
C18_RestrictedUnlessForced ==
    [][/\ (GeneratedEarly =>
             IF st.force_consider_all_pieces
             THEN Range(st.moves[st.bd.tp]) = LegalMoves(st)
             ELSE /\ Range(st.moves[st.bd.tp]) = RestrictedMoves(st, st.bd.tp)
                  /\ RestrictedMoves(st, st.bd.tp) # {})'
       /\ (~st.force_consider_all_pieces /\ st'.force_consider_all_pieces =>
             NoMoveInForce(st, \/ pc = "tree"
                               \/ ~st.is_move_list_initialized[st.bd.tp]))]_vars

\* A list was generated with all pieces although the color to play has
\* moves of the pieces its table lists: an earlier color set the flag.
C18_Witness ==
    /\ GeneratedEarly
    /\ st.force_consider_all_pieces
    /\ RestrictedMoves(st, st.bd.tp) # {}
    /\ Range(st.moves[st.bd.tp]) = LegalMoves(st)


(***************************************************************************)
(* Properties of the simulation lifecycle.                                 *)
(***************************************************************************)
\* The number of passes the history h ends with.
NuTrailingPasses(h) ==
    CHOOSE k \in 0 .. Len(h) :
        /\ \A i \in (Len(h) - k + 1) .. Len(h) : h[i][2] = MovePass
        /\ (k < Len(h) => h[Len(h) - k][2] # MovePass)

\* What start_simulation establishes on the state S it leaves.
SimulationStarted(S) ==
    /\ S.bd = S.snapshot
    /\ \A c \in 0 .. (S.nu_colors - 1) :
          /\ S.new_moves[c] = <<>>
          /\ S.moves_added_at[c] = {}
          /\ ~S.is_move_list_initialized[c]
          /\ S.has_moves[c]
    /\ ~S.force_consider_all_pieces
    /\ S.nu_passes = NuTrailingPasses(S.snapshot.hist)

\* C19: start_simulation leaves the board equal to the root snapshot, for
\* every color new_moves and moves_added_at empty, is_move_list_initialized
\* false and has_moves true, force_consider_all_pieces false and nu_passes
\* the number of trailing passes of the root history; a second call right
\* after changes nothing but the simulation counter.
C19_StartSimulationResets ==
    [][pc = "idle" /\ pc' = "tree" =>
          /\ SimulationStarted(st')
          /\ start_simulation(st') = [st' EXCEPT !.nu_simulations = @ + 1]]_vars

\* The second simulation of a search whose root history ends with a pass
\* has just been started.
C19_Witness ==
    /\ pc = "tree"
    /\ st.nu_simulations = 2
    /\ st.snapshot.hist # <<>>
    /\ st.nu_passes = 1
    /\ SimulationStarted(st)

RECURSIVE ReplayMoves(_, _)
\* The board after the non-pass moves of the list log are played in turn
\* on the board b, each by the color then to play.
ReplayMoves(b, log) ==
    IF log = <<>> THEN b
    ELSE ReplayMoves(IF Head(log)[2] = MovePass THEN b
                     ELSE play_nonpass(b, Head(log)[2]),
                     Tail(log))

RECURSIVE ReplayTurns(_, _)
\* The board after the entries of the list log are played in turn on the
\* board b, each by the color the entry names: a pass by play_pass, a move
\* by play_nonpass after the turn was handed to that color.
ReplayTurns(b, log) ==
    IF log = <<>> THEN b
    ELSE ReplayTurns(IF Head(log)[2] = MovePass THEN play_pass(set_to_play(b, Head(log)[1]))
                     ELSE play_nonpass(set_to_play(b, Head(log)[1]), Head(log)[2]),
                     Tail(log))

\* play_playout has returned and gen_playout_move was not called since.
AfterPlay ==
    /\ pc \in {"tree", "expanded", "leaf", "playout"}
    /\ st.played # <<>>
    /\ st.played[Len(st.played)][2] # MovePass

\* C20 as stated: after any sequence of play_playout calls of a simulation,
\* also when gen_playout_move skipped colors without moves in between, the
\* internal board equals the board obtained by playing the same moves on a
\* fresh copy of the root snapshot (simulations without a pass in the tree).
C20_BoardIsReplayOfMoves ==
    AfterPlay /\ (\A i \in 1 .. Len(st.played) : st.played[i][2] # MovePass)
        => st.bd = ReplayMoves(st.snapshot, st.played)

\* C20, amended: after any sequence of play_playout calls of a simulation
\* the internal board equals the board obtained from a fresh copy of the
\* root snapshot by playing the same moves, each by the color that played
\* it, and the passes the tree held; the colors gen_playout_move skipped
\* leave no trace on the board but the color to play.
C20_BoardIsReplayOfTurns ==
    AfterPlay => st.bd = ReplayTurns(st.snapshot, st.played)

\* A color played twice in a row in a playout because gen_playout_move
\* skipped the other color.
C20_Witness ==
    /\ pc = "playout"
    /\ Len(st.played) >= 2
    /\ st.played[Len(st.played)][1] = st.played[Len(st.played) - 1][1]
    /\ st.played[Len(st.played) - 1][2] # MovePass
    /\ st.bd = ReplayTurns(st.snapshot, st.played)


(***************************************************************************)
(* Properties of the Player object.                                        *)
(***************************************************************************)
\* C21: fixed_simulations and fixed_time are never both non-zero:
\* set_fixed_simulations(n) stores n and sets fixed_time to 0,
\* set_fixed_time(s) stores s and sets fixed_simulations to 0, set_level
\* clears both; none of the three changes use_book, and only set_level
\* changes the level.
C21_FixedBudgetsExclusive ==
    [][/\ (player.fixed_simulations = 0 \/ player.fixed_time = 0)'
       /\ (player'.last.op = "set_fixed_simulations" =>
             /\ player'.fixed_simulations = player'.last.arg
             /\ player'.fixed_time = 0)
       /\ (player'.last.op = "set_fixed_time" =>
             /\ player'.fixed_time = player'.last.arg
             /\ player'.fixed_simulations = 0)
       /\ (player'.last.op = "set_level" =>
             /\ player'.level = player'.last.arg
             /\ player'.fixed_simulations = 0
             /\ player'.fixed_time = 0)
       /\ (player'.last.op # "set_use_book" => player'.use_book = player.use_book)
       /\ (player'.last.op # "set_level" => player'.level = player.level)]_vars

\* set_fixed_time was called with a positive time on a player that had a
\* fixed number of simulations.
C21_Witness ==
    /\ player.last.op = "set_fixed_time"
    /\ player.last.arg > 0
    /\ player.last.fixed_simulations > 0
    /\ player.fixed_simulations = 0


(***************************************************************************)
(* Properties of the search driver.                                        *)
(***************************************************************************)
\* C22: under every interleaving of the workers a node's expansion state
\* only moves unexpanded -> expanding -> expanded, one step at a time and
\* never backwards; exactly one worker wins the compare-and-swap from
\* unexpanded (a node has left unexpanded iff it has one winner); and no
\* worker reads the children of a node that is not expanded.
C22_OneExpansionPerNode ==
    [][\A n \in Nodes :
         LET before == ExpansionRank(search.nodes[n].expansion)
             after  == ExpansionRank(search'.nodes[n].expansion)
         IN /\ after >= before
            /\ after <= before + 1
            /\ search'.winners[n] <= 1
            /\ (n # Root => (after > 0 <=> search'.winners[n] = 1))
            /\ Cardinality({w \in Workers :
                              /\ search'.worker[w].pc = "expand"
                              /\ search'.worker[w].node = n}) <= 1
            /\ ~search'.read_early]_vars

\* A worker lost the compare-and-swap on a node another worker expanded,
\* and a worker has descended through an expanded node below the root.
C22_Witness ==
    /\ search.phase = "done"
    /\ search.cas_failed
    /\ \E n \in Nodes \ {Root} :
         /\ search.winners[n] = 1
         /\ search.nodes[n].expansion = "expanded"

\* C23: a search stops on the simulation count or on the time only once
\* min_simulations simulations are done; with fewer it stops only for
\* exhausted memory, an abort, or a root with one legal move.
C23_MinSimulationsFirst ==
    /\ search.stop \in {"count", "time"} =>
         search.stopped_at >= search.min_simulations
    /\ (search.stop # "none" /\ search.stopped_at < search.min_simulations) =>
         search.stop \in {"memory", "abort", "single"}

\* The search went on past max_count until min_simulations was reached and
\* then stopped on the count.
C23_Witness ==
    /\ search.stop = "count"
    /\ search.max_count < search.min_simulations
    /\ search.stopped_at = search.min_simulations

\* C24: a search ended by the abort flag returns the best root move if
\* min_simulations simulations were completed and a null move otherwise;
\* a worker leaves only between two simulations, so when the search
\* returns every started simulation is completed and backed up.
C24_AbortReturnsBestOrNull ==
    [][/\ \A w \in Workers :
            (search'.worker[w].pc = "joined" /\ search.worker[w].pc # "joined")
                => search.worker[w].pc = "check"
       /\ search'.phase = "done" =>
            /\ search'.started = search'.simulations
            /\ \A w \in Workers : search'.worker[w].pc = "joined"
            /\ search'.stop = "abort" =>
                 search'.move = IF search'.simulations >= search'.min_simulations
                                THEN best_child(search')
                                ELSE NodeNull]_vars

\* The abort was seen while another worker was inside a simulation; that
\* simulation was completed, still too few for min_simulations, and the
\* search returned a null move.
C24_Witness ==
    /\ search.phase = "done"
    /\ search.stop = "abort"
    /\ search.in_flight > 0
    /\ search.simulations > search.stopped_at
    /\ search.move = NodeNull

\* An aborted search with min_simulations completed returned its best move.
C24_WitnessBest ==
    /\ search.phase = "done"
    /\ search.stop = "abort"
    /\ search.simulations >= search.min_simulations
    /\ search.simulations > 0
    /\ search.move = best_child(search)


(***************************************************************************)
(* Determinism.                                                            *)
(***************************************************************************)
\* What a run shows: where it is in the simulation, the moves played, the
\* board, the last move generated and how gen_playout_move ended, and the
\* results of the colors of the game.
Shown(R) ==
    [pc     |-> R.pc,
     played |-> R.st.played,
     bd     |-> R.st.bd,
     mv     |-> R.mv,
     ret    |-> R.ret,
     result |-> [c \in Colors(R.st.bd) |-> R.result.result[c]]]

\* C25: two single-threaded runs from the same board, color to play,
\* parameters, random numbers and empty last-good-reply table go through
\* the same playout moves and results.
C25_RunsAgree ==
    twin.phase = "running" => Shown(twin.a) = Shown(twin.b)


(***************************************************************************)
(* Legality of the moves gen_playout_move produces.                        *)
(***************************************************************************)
\* C26: every move gen_playout_move returns true with, a last good reply
\* or a sampled move, is a legal non-pass move for the color to play, so
\* the assertion of play_playout never fails in gen_and_play_playout_move.
C26_GeneratedMoveIsLegal ==
    /\ pc = "gen" => IsRegular(mv) /\ is_legal_nonpass(st.bd, mv)
    /\ ~(pc = "failed" /\ ret \in {"lgr1", "lgr2", "sampled"})

\* A move sampled for a color that got the turn in the loop, after earlier
\* moves of the simulation.
C26_Witness ==
    /\ pc = "gen"
    /\ ret = "sampled"
    /\ st.nu_passes > 0
    /\ Len(st.played) >= 2
    /\ is_legal_nonpass(st.bd, mv)


(***************************************************************************)
(* Incremental maintenance of the move lists.                              *)
(***************************************************************************)
\* The legal moves of color c on board b, whoever is to play.
LegalMovesOf(b, c) ==
    {m \in RegularMoves : is_legal_nonpass(set_to_play(b, c), m)}

\* The list of color c in state S holds the moves a fresh
\* init_moves_with_gamma generates on the board of S, which are the legal
\* moves of c.
ListIsComplete(S, c) ==
    /\ Range(S.moves[c]) = Range(init_moves_with_gamma(S, c).moves[c])
    /\ Range(S.moves[c]) = LegalMovesOf(S.bd, c)
    /\ Cardinality(Range(S.moves[c])) = Len(S.moves[c])

StillPlayable(S, c, m) ==
    /\ is_piece_left(S.bd, c, PieceOf(m))
    /\ \A p \in MovePointSet(m) : ~is_forbidden(S.bd, p, c)

\* The moves of the list of c in S that are still playable, in order.
KeptMoves(S, c) ==
    SelectSeq(S.moves[c], LAMBDA m : StillPlayable(S, c, m))

\* The list of c in T is the kept moves of S in their order followed by
\* moves S did not list; the dropped moves have lost their marker and
\* new_moves[c] is empty.
UpdatedFrom(S, T, c) ==
    /\ Len(T.moves[c]) >= Len(KeptMoves(S, c))
    /\ SubSeq(T.moves[c], 1, Len(KeptMoves(S, c))) = KeptMoves(S, c)
    /\ \A i \in (Len(KeptMoves(S, c)) + 1) .. Len(T.moves[c]) :
         T.moves[c][i] \notin Range(S.moves[c])
    /\ \A m \in Range(S.moves[c]) :
         ~StillPlayable(S, c, m) => m \notin T.marker[c]
    /\ T.new_moves[c] = <<>>

\* C28: update_moves(c) keeps a listed move exactly when its piece is still
\* left and none of its points is forbidden; the kept moves stay in order
\* ahead of the new ones, a dropped move has its marker cleared, and
\* new_moves[c] is empty afterwards.
C28_KeptInOrder ==
    [][(pc = "loop" /\ ListOp(st) = "update")
       => UpdatedFrom(st, st', st.bd.tp)]_vars

\* Whether move m holds an attach point of a move color c played in the
\* simulation; the moves update_moves enumerates anew all do.
AtNewAttach(S, c, m) ==
    \E i \in 1 .. Len(S.played) :
        /\ S.played[i][1] = c
        /\ MovePointSet(m) \cap Range(MoveAttachPoints(S.played[i][2])) # {}

\* update_moves has just run on a drawn list: two moves it kept stand, in
\* the list, ahead of a move at a new attach point; the list is marked and
\* new_moves is empty.
C28_Witness ==
    /\ pc = "sample"
    /\ examined = 1
    /\ Len(st.moves[st.bd.tp]) >= 3
    /\ ~AtNewAttach(st, st.bd.tp, st.moves[st.bd.tp][1])
    /\ ~AtNewAttach(st, st.bd.tp, st.moves[st.bd.tp][2])
    /\ AtNewAttach(st, st.bd.tp, st.moves[st.bd.tp][Len(st.moves[st.bd.tp])])
    /\ st.new_moves[st.bd.tp] = <<>>
    /\ st.marker[st.bd.tp] = Range(st.moves[st.bd.tp])


(***************************************************************************)
(* The early end of a playout.                                             *)
(***************************************************************************)
\* A step in which gen_playout_move ends the playout early.
EndsEarly == pc = "loop" /\ pc' = "ended" /\ ret' = "early"

\* What holds of the color that was to play whenever the playout ends
\* early: its list is empty, its score negative, its second color has no
\* moves; no pass is counted or recorded, the turn and the symmetry flag
\* stay.
EarlyCase ==
    /\ get_nu_players(st.bd) = 2
    /\ st'.moves[st.bd.tp] = <<>>
    /\ LegalMovesOf(st.bd, st.bd.tp) = {}
    /\ get_score(st.bd, st.bd.tp) < 0
    /\ ~st'.has_moves[get_second_color(st.bd, st.bd.tp)]
    /\ LegalMovesOf(st.bd, get_second_color(st.bd, st.bd.tp)) = {}
    /\ st'.nu_passes = st.nu_passes
    /\ st'.bd = st.bd
    /\ st'.played = st.played
    /\ st'.is_symmetry_broken = st.is_symmetry_broken

\* C29 as stated: a playout ends early only in a variant with two players,
\* in a position within the first TerminateEarlyMoves * nu_colors moves of
\* the game, for a color with an empty list, a negative score and a second
\* color without moves; no pass is recorded and the symmetry flag stays.
C29_EarlyOnlyInEarlyPosition ==
    [][EndsEarly => /\ EarlyCase
                    /\ get_nu_moves(st.bd) < TerminateEarlyMoves * st.nu_colors]_vars

\* C29 amended: the limit is on the root of the search, not on the position
\* of the playout.
C29_EarlyOnlyInEarlySearch ==
    [][EndsEarly => /\ EarlyCase
                    /\ st.nu_moves_initial < TerminateEarlyMoves * st.nu_colors
                    /\ get_nu_moves(st.snapshot) = st.nu_moves_initial]_vars

\* A playout that ended early in a position past the limit, in a search
\* whose root is within it.
C29_Witness ==
    /\ pc = "ended"
    /\ ret = "early"
    /\ st.nu_moves_initial < TerminateEarlyMoves * st.nu_colors
    /\ get_nu_moves(st.bd) >= TerminateEarlyMoves * st.nu_colors
    /\ st.moves[st.bd.tp] = <<>>
    /\ get_score(st.bd, st.bd.tp) < 0


\* The bonuses evaluate_playout can add to a game result: a fifth of a win
\* times the sigmoid of the score, 12 hundredths of a win times the sigmoid
\* of the length.
ScoreParts ==
    {sgn * (((ResultOne \div 5) * v) \div SigmoidDenom) :
        sgn \in {-1, 0, 1}, v \in SigmoidValues}
LengthParts ==
    {sgn * ((((ResultOne * 12) \div 100) * v) \div SigmoidDenom) :
        sgn \in {-1, 0, 1}, v \in SigmoidValues}

\* The players whose result the playout evaluation has assigned.
EvaluatedPlayers == 0 .. (get_nu_players(st.bd) - 1)

\* The game result of player i before the bonuses; the second of two
\* players has the complement of the first player's.
BaseResult(i) ==
    IF get_nu_players(st.bd) = 2 /\ i = 1
    THEN ResultOne - result.game_result[0]
    ELSE result.game_result[i]

\* The statistics of the score that player i's result depends on.
ScoreStat(i) == st.stat_score[IF get_nu_players(st.bd) = 2 THEN 0 ELSE i]

\* What the result of player i has beyond the game result, and the part of
\* it that is a bonus for the length.
TotalBonus(i) == result.result[i] - BaseResult(i)
LengthPart(i) == CHOOSE lb \in LengthParts : TotalBonus(i) - lb \in ScoreParts
ScorePart(i) == TotalBonus(i) - LengthPart(i)

\* 1, -1, 0: the playout was longer than, shorter than, as long as the mean.
LengthSide ==
    IF get_nu_moves(st.bd) * st.stat_len.count > st.stat_len.sum THEN 1
    ELSE IF get_nu_moves(st.bd) * st.stat_len.count < st.stat_len.sum THEN -1
    ELSE 0

PlaysPiece ==
    /\ pc # "idle"
    /\ Len(st'.bd.hist) = Len(st.bd.hist) + 1
    /\ st'.bd.hist[Len(st'.bd.hist)][2] # MovePass

\* A step that plays a pass of the tree.
PlaysTreePass ==
    /\ pc # "idle"
    /\ Len(st'.bd.hist) = Len(st.bd.hist) + 1
    /\ st'.bd.hist[Len(st'.bd.hist)][2] = MovePass

\* A step of the loop of gen_playout_move that skips the color to play.
SkipsColor ==
    /\ pc = "loop"
    /\ st'.bd.hist = st.bd.hist
    /\ st'.bd.tp # st.bd.tp

\* A step inside a call of gen_playout_move.
InGenPlayoutMove ==
    /\ pc \in {"tree", "leaf", "playout", "loop", "sample"}
    /\ pc' \in {"loop", "sample", "gen", "ended", "failed"}

\* C31: once a simulation was started 0 <= nu_passes <= nu_colors;
\* start_simulation sets nu_passes to the number of trailing passes of the
\* root history, a played piece resets it to 0, a skipped color adds exactly
\* 1, and gen_playout_move changes it in no other way and never raises it
\* to nu_colors.
C31_PassCounter ==
    [][/\ st'.nu_simulations > 0 => (0 <= st'.nu_passes /\ st'.nu_passes <= st'.nu_colors)
       /\ (pc = "idle" /\ pc' = "tree") =>
              st'.nu_passes = NuTrailingPasses(st'.snapshot.hist)
       /\ PlaysPiece => st'.nu_passes = 0
       /\ SkipsColor => st'.nu_passes = st.nu_passes + 1
       /\ InGenPlayoutMove =>
              /\ st'.nu_passes # st.nu_passes => SkipsColor
              /\ st'.nu_passes # st.nu_passes => st'.nu_passes < st'.nu_colors]_vars

\* A playout of the second simulation of a search started after the first
\* move: pieces were played, which reset the counter, a color was skipped
\* since, and gen_playout_move returned false at the next color without
\* moves.
C31_Witness ==
    /\ pc = "ended" /\ ret = "last_pass"
    /\ st.nu_simulations = 2
    /\ st.snapshot.hist # <<>>
    /\ Len(st.bd.hist) > Len(st.snapshot.hist) + 1
    /\ st.bd.hist[Len(st.bd.hist)][2] # MovePass
    /\ st.nu_passes = st.nu_colors - 1
    /\ st.nu_passes > 0

\* The pieces not yet on the board.
PiecesOffBoard(S) == S.nu_colors * Cardinality(Pieces) - get_nu_onboard_pieces(S.bd)

\* How far the call of gen_playout_move under way is from its return.
CallRank(p) ==
    CASE p \in {"tree", "leaf", "playout"} -> 3
      [] p = "loop" -> 2
      [] p = "sample" -> 1
      [] OTHER -> 0

\* A measure of the playout left: the pieces off the board, then the passes
\* the loop may still count, then the steps left of the current call.
PlayoutMeasure(S, p) ==
    PiecesOffBoard(S) * 20 + (S.nu_colors - S.nu_passes) * 4 + CallRank(p)

\* Every step of a playout that does not end it lowers the measure, which
\* is never negative: the loop of one call runs finitely often and every
\* call that returns true puts a piece on the board.
PlayoutMeasureDecreases ==
    [][(pc \in {"tree", "leaf", "playout", "loop", "sample", "gen"}
        /\ pc' \in {"playout", "loop", "sample", "gen"})
       => /\ PlayoutMeasure(st', pc') < PlayoutMeasure(st, pc)
          /\ PlayoutMeasure(st', pc') >= 0
          /\ (pc = "gen" => PiecesOffBoard(st') = PiecesOffBoard(st) - 1)
          /\ (pc = "loop" => examined < st.nu_colors)]_vars

\* C32: every playout terminates: from every state of a started simulation
\* the calls of gen_and_play_playout_move that follow each other come to
\* one that returns false.
C32_PlayoutTerminates == InPlayout ~> (pc = "ended")

\* A playout has ended at the last pass: pieces were played in it, and the
\* final call skipped a color before it returned false.
C32_Witness ==
    /\ pc = "ended" /\ ret = "last_pass"
    /\ examined >= 2
    /\ st.nu_playout_moves >= 3
    /\ Len(st.bd.hist) >= 2

(***************************************************************************)
(* Properties of the response of the text protocol.                        *)
(***************************************************************************)
\* The newlines of the text t up to position i that follow a newline: the
\* empty lines inside the text.
EmptyLinesUpTo(t, i) ==
    Cardinality({j \in 2 .. i : t[j] = Newline /\ t[j - 1] = Newline})

\* C36: what Response::write emits ends with two newlines and has no two
\* consecutive newlines before; every character of the text is emitted in
\* order, moved back by one place per empty line before it or at it, the
\* place before the newline of an empty line holds a space, and nothing
\* else is emitted but the end of an unfinished last line.
C36_WriteEndsWithOneEmptyLine ==
    response.phase = "written" =>
        LET t == response.text
            o == response.out
            n == Len(o)
        IN /\ n >= 2 /\ o[n] = Newline /\ o[n - 1] = Newline
           /\ \A i \in 1 .. (n - 2) : ~(o[i] = Newline /\ o[i + 1] = Newline)
           /\ \A i \in 1 .. Len(t) : o[i + EmptyLinesUpTo(t, i)] = t[i]
           /\ \A i \in 2 .. Len(t) :
                 (t[i] = Newline /\ t[i - 1] = Newline)
                    => o[i + EmptyLinesUpTo(t, i) - 1] = " "
           /\ n = Len(t) + EmptyLinesUpTo(t, Len(t))
                  + (IF t # <<>> /\ t[Len(t)] = Newline THEN 1 ELSE 2)
           /\ response.buffer = t

\* A text with an empty line inside and an unfinished last line was written.
C36_Witness ==
    /\ response.phase = "written"
    /\ Len(response.text) = MaxTextLen
    /\ response.text[2] = Newline /\ response.text[3] = Newline
    /\ response.text[MaxTextLen] = "a"
    /\ Len(response.out) = MaxTextLen + 3

(***************************************************************************)
(* Properties of the analysis front-end.                                   *)
(***************************************************************************)
CancelWaits == analyze.gui = "waiting" /\ analyze.cont = "cancel"

CancelReturned ==
    /\ analyze.gui = "idle"
    /\ ~analyze.isRunning
    /\ WatchedFinished(analyze)

\* C33: a cancel() that waits for the running analysis returns, with the
\* worker finished and isRunning false, whatever the worker does meanwhile.
C33_CancelReturns == CancelWaits ~> CancelReturned

\* The workers that were launched and have not finished.
ActiveWorkers(a) == {i \in DOMAIN a.workers : a.workers[i].at # "finished"}

\* This step launches a worker.
LaunchesWorker == Len(analyze'.workers) > Len(analyze.workers)

\* In this step the thread of a worker begins to run.
WorkerBegins ==
    \E i \in DOMAIN analyze.workers :
        analyze.workers[i].at = "queued" /\ analyze'.workers[i].at # "queued"

\* Every isRunningChanged of the last function changed the value.
EmittedOnChange(a) == \A k \in DOMAIN a.emitted : a.emitted[k][1] # a.emitted[k][2]

\* A worker is launched only when every worker before it has finished, the
\* running one after the abort flag was set for it.
LaunchAfterAbortAndFinish ==
    LaunchesWorker =>
        /\ ActiveWorkers(analyze) = {}
        /\ analyze.isRunning => (analyze.gui = "waiting" /\ analyze.abort)

\* C34 as stated: at most one worker at a time, a launch only after the
\* running worker was aborted and has finished, the abort flag clear when
\* the thread of the new worker begins, isRunningChanged only on a change.
C34_AbortClearWhenWorkerBegins ==
    [][/\ Cardinality(ActiveWorkers(analyze')) <= 1
       /\ LaunchAfterAbortAndFinish
       /\ WorkerBegins => ~analyze.abort
       /\ EmittedOnChange(analyze')]_vars

\* C34: at most one worker is active at a time; a worker is launched only
\* after the running one was aborted and has finished; the abort flag is
\* clear when start() has launched the worker; every isRunningChanged
\* emitted changed the value of isRunning.
C34_OneWorkerAtATime ==
    [][/\ Cardinality(ActiveWorkers(analyze')) <= 1
       /\ LaunchAfterAbortAndFinish
       /\ LaunchesWorker => ~analyze'.abort
       /\ EmittedOnChange(analyze')]_vars

\* start() was called while the first worker ran: the worker was aborted,
\* isRunning went to false and back to true, and the second worker runs.
C34_Witness ==
    /\ Len(analyze.workers) = 2
    /\ analyze.workers[1].at = "finished"
    /\ analyze.workers[2].at = "search"
    /\ analyze.called = "updateElements"
    /\ ~analyze.abort
    /\ analyze.isRunning
    /\ Len(analyze.moves) < Len(MovesToAnalyze)

RECURSIVE IsPrefixOf(_, _)
IsPrefixOf(p, l) ==
    \/ p = <<>>
    \/ l # <<>> /\ Head(p) = Head(l) /\ IsPrefixOf(Tail(p), Tail(l))

\* C35: after markCurrentMove the mark is -1, or the current node is in the
\* main variation, the mark is the number of moves from the root to it and
\* these moves are the first moves of the analysis.
C35_MarkMatchesPosition ==
    (analyze.called = "markCurrentMove" /\ analyze.markMoveNumber # NoMark) =>
        /\ is_main_variation(game)
        /\ analyze.markMoveNumber = Len(PathMoves(game))
        /\ IsPrefixOf(PathMoves(game), analyze.moves)

=========================================================================
